---------------------------- MODULE Spec2Model ----------------------------
(***************************************************************************)
(* A model of codebreaker-rs: the RC4 primitive (src/src/rc4.rs), the v1   *)
(* codec (src/src/cb1.rs), the v7 codec (src/src/cb7.rs) and the stream    *)
(* processor Codebreaker (src/src/lib.rs).                                 *)
(*                                                                         *)
(* A u32 is the tuple of its four little-endian bytes <<b0, b1, b2, b3>>;  *)
(* a byte buffer is a sequence of bytes.  All arithmetic on words is       *)
(* carried out modulo 2^32 on that representation.                         *)
(***************************************************************************)
EXTENDS Integers, Sequences, FiniteSets, TLC

VARIABLES
    cb,        \* the Codebreaker under test: [scheme, cb7, code_lines]
    peer,      \* a second, independent Codebreaker
    engine,    \* a Cb7 driven directly: [seeds, key, beefcodf, initialized],
               \* or an Rc4 driven directly: [ok, i, j, state]
    last,      \* the last call on cb or engine: op, in, out, ok, rekeys, before
    peerLast,  \* the last call on peer, or the second of two composed calls
    calls,     \* number of steps taken so far
    pending    \* lines of the current plaintext command still to come

vars == <<cb, peer, engine, last, peerLast, calls, pending>>

----------------------------------------------------------------------------
(* Bytes and 32-bit words                                                  *)

RECURSIVE XorBits(_, _, _)
XorBits(a, b, n) ==
    IF n = 0 THEN 0
    ELSE ((a + b) % 2) + 2 * XorBits(a \div 2, b \div 2, n - 1)

XorTab == [i \in 0..65535 |-> XorBits(i \div 256, i % 256, 8)]

Xor8(a, b) == XorTab[a * 256 + b]

And8(a, b) == (a + b - Xor8(a, b)) \div 2

Or8(a, b) == (a + b + Xor8(a, b)) \div 2

\* The word whose upper half is hi and lower half is lo (both below 2^16).
U32(hi, lo) == <<lo % 256, lo \div 256, hi % 256, hi \div 256>>

Lo16(w) == w[1] + 256 * w[2]

Hi16(w) == w[3] + 256 * w[4]

Zero32 == <<0, 0, 0, 0>>

\* The value of a word known to be below 2^31.
Small(w) == Lo16(w) + 65536 * Hi16(w)

Xor32(a, b) == <<Xor8(a[1], b[1]), Xor8(a[2], b[2]), Xor8(a[3], b[3]), Xor8(a[4], b[4])>>

And32(a, b) == <<And8(a[1], b[1]), And8(a[2], b[2]), And8(a[3], b[3]), And8(a[4], b[4])>>

Or32(a, b) == <<Or8(a[1], b[1]), Or8(a[2], b[2]), Or8(a[3], b[3]), Or8(a[4], b[4])>>

\* u32::wrapping_add
Add32(a, b) ==
    LET lo == Lo16(a) + Lo16(b)
        hi == Hi16(a) + Hi16(b) + (lo \div 65536)
    IN U32(hi % 65536, lo % 65536)

\* u32::wrapping_sub
Sub32(a, b) ==
    LET lo == 65536 + Lo16(a) - Lo16(b)
        hi == 65536 + Hi16(a) - Hi16(b) - (IF lo < 65536 THEN 1 ELSE 0)
    IN U32(hi % 65536, lo % 65536)

\* u32::wrapping_mul
Mul32(a, b) ==
    LET c0 == a[1] * b[1]
        c1 == a[1] * b[2] + a[2] * b[1] + (c0 \div 256)
        c2 == a[1] * b[3] + a[2] * b[2] + a[3] * b[1] + (c1 \div 256)
        c3 == a[1] * b[4] + a[2] * b[3] + a[3] * b[2] + a[4] * b[1] + (c2 \div 256)
    IN <<c0 % 256, c1 % 256, c2 % 256, c3 % 256>>

\* w >> n, 0 <= n < 32
Shr32(w, n) ==
    IF n >= 16 THEN U32(0, Hi16(w) \div (2 ^ (n - 16)))
    ELSE U32(Hi16(w) \div (2 ^ n),
             (Lo16(w) \div (2 ^ n)) + (Hi16(w) % (2 ^ n)) * (2 ^ (16 - n)))

\* w << n, 0 <= n < 32
Shl32(w, n) ==
    IF n >= 16 THEN U32((Lo16(w) * (2 ^ (n - 16))) % 65536, 0)
    ELSE U32(((Hi16(w) * (2 ^ n)) % 65536) + (Lo16(w) \div (2 ^ (16 - n))),
             (Lo16(w) * (2 ^ n)) % 65536)

\* "let b = v; In(b)": v is evaluated once, to a value, before In uses it.
Bind(v, In(_)) == CHOOSE r \in {In(b) : b \in {v}} : TRUE

\* A loop "for i in lo..hi { s = Body(s, i) }", run in order.  The range is
\* halved and the first half is evaluated to a value before the second
\* starts, which keeps the evaluation depth logarithmic.
RECURSIVE For(_, _, _, _)
For(Body(_, _), lo, hi, s) ==
    IF lo >= hi THEN s
    ELSE IF hi = lo + 1 THEN Body(s, lo)
    ELSE Bind(For(Body, lo, (lo + hi) \div 2, s),
              LAMBDA v : For(Body, (lo + hi) \div 2, hi, v))

----------------------------------------------------------------------------
(* src/src/rc4.rs                                                          *)

\* One iteration of the key-scheduling loop of Rc4::new.
Rc4KeyStep(r, i, key) ==
    Bind((r.j + r.state[i + 1] + key[(i % Len(key)) + 1]) % 256, LAMBDA j :
         [j |-> j,
          state |-> [r.state EXCEPT ![i + 1] = r.state[j + 1], ![j + 1] = r.state[i + 1]]])

\* Rc4::new with the upper limit on the key length left out.
Rc4NewAnyLength(key) ==
    IF Len(key) = 0
    THEN [ok |-> FALSE, i |-> 0, j |-> 0, state |-> <<>>]
    ELSE LET r == For(LAMBDA s, i : Rc4KeyStep(s, i, key), 0, 256,
                      [j |-> 0, state |-> [k \in 1..256 |-> k - 1]])
         IN [ok |-> TRUE, i |-> 0, j |-> 0, state |-> r.state]

\* Rc4::new: ok is FALSE when the assertion on the key length fails.
Rc4New(key) ==
    IF Len(key) = 0 \/ Len(key) > 256
    THEN [ok |-> FALSE, i |-> 0, j |-> 0, state |-> <<>>]
    ELSE LET r == For(LAMBDA s, i : Rc4KeyStep(s, i, key), 0, 256,
                      [j |-> 0, state |-> [k \in 1..256 |-> k - 1]])
         IN [ok |-> TRUE, i |-> 0, j |-> 0, state |-> r.state]

\* The loop body of Rc4::crypt with j advanced by the buffer byte as well:
\* the keystream then depends on the data.
Rc4CryptStepDataFed(r, k) ==
    Bind((r.rc4.i + 1) % 256, LAMBDA i :
    Bind((r.rc4.j + r.rc4.state[i + 1] + r.buf[k + 1]) % 256, LAMBDA j :
    Bind([r.rc4.state EXCEPT ![i + 1] = r.rc4.state[j + 1],
                             ![j + 1] = r.rc4.state[i + 1]], LAMBDA st :
         [rc4 |-> [ok |-> TRUE, i |-> i, j |-> j, state |-> st],
          buf |-> [r.buf EXCEPT
                     ![k + 1] = Xor8(r.buf[k + 1],
                                     st[((st[i + 1] + st[j + 1]) % 256) + 1])]])))

\* One iteration of the loop of Rc4::crypt, on byte k of the buffer.
Rc4CryptStep(r, k) ==
    Bind((r.rc4.i + 1) % 256, LAMBDA i :
    Bind((r.rc4.j + r.rc4.state[i + 1]) % 256, LAMBDA j :
    Bind([r.rc4.state EXCEPT ![i + 1] = r.rc4.state[j + 1],
                             ![j + 1] = r.rc4.state[i + 1]], LAMBDA st :
         [rc4 |-> [ok |-> TRUE, i |-> i, j |-> j, state |-> st],
          buf |-> [r.buf EXCEPT
                     ![k + 1] = Xor8(r.buf[k + 1],
                                     st[((st[i + 1] + st[j + 1]) % 256) + 1])]])))

\* Rc4::crypt: the instance after the call and the buffer it rewrote.
Rc4Crypt(rc4, buf) ==
    For(Rc4CryptStep, 0, Len(buf), [rc4 |-> rc4, buf |-> buf])

----------------------------------------------------------------------------
(* src/src/cb1.rs                                                          *)

Cb1Seeds0 ==
    << U32(\h0a0b, \h8d9b), U32(\h0a01, \h33f8), U32(\h0af7, \h33ec), U32(\h0a15, \hc574),
       U32(\h0a50, \hac20), U32(\h0a92, \h0fb9), U32(\h0a59, \h9f0b), U32(\h0a4a, \ha0e3),
       U32(\h0a21, \hc012), U32(\h0a90, \h6254), U32(\h0a31, \hfd54), U32(\h0a09, \h1c0e),
       U32(\h0a37, \h2b38), U32(\h0a6f, \h266c), U32(\h0a61, \hdd4a), U32(\h0a0d, \hbf92) >>

Cb1Seeds1 ==
    << U32(\h0028, \h8596), U32(\h0037, \hdd28), U32(\h003b, \heef1), U32(\h000b, \hc822),
       U32(\h00bc, \h935d), U32(\h00a1, \h39f2), U32(\h00e9, \hbbf8), U32(\h00f5, \h7f7b),
       U32(\h0090, \hd704), U32(\h0018, \h14d4), U32(\h00c5, \h848e), U32(\h005b, \h83e7),
       U32(\h0010, \h8cf7), U32(\h0046, \hce5a), U32(\h003a, \h5bf4), U32(\h006f, \haffc) >>

Cb1Seeds2 ==
    << U32(\h1dd9, \ha10a), U32(\hb95a, \hb9b0), U32(\h5cf5, \hd328), U32(\h95fe, \h7f10),
       U32(\h8e2d, \h6303), U32(\h16bb, \h6286), U32(\he389, \h324c), U32(\h07ac, \h6ea8),
       U32(\haa48, \h11d8), U32(\h76ce, \h4e18), U32(\hfe44, \h7516), U32(\hf9cd, \h94d0),
       U32(\h4c24, \hdedb), U32(\h6827, \h5c4e), U32(\h7249, \h4382), U32(\hc8aa, \h88e8) >>

\* SEEDS[t][cmd]
Cb1Seeds(t, cmd) ==
    IF t = 0 THEN Cb1Seeds0[cmd + 1]
    ELSE IF t = 1 THEN Cb1Seeds1[cmd + 1]
    ELSE Cb1Seeds2[cmd + 1]

\* A code is the pair of an address word and a value word.
Code(addr, val) == [addr |-> addr, val |-> val]

\* cb1::encrypt_code without the mask 0x00ff_ffff: the sum carries into the
\* top byte of the address.
Cb1EncryptUnmasked(code) ==
    LET cmd   == Small(Shr32(code.addr, 28))
        tmp   == And32(code.addr, U32(\hff00, 0))
        addr1 == Or32(Shl32(And32(code.addr, U32(0, \hff)), 16),
                      And32(Shr32(code.addr, 8), U32(0, \hffff)))
        addr2 == Xor32(Or32(tmp, Add32(addr1, Cb1Seeds(1, cmd))),
                       Cb1Seeds(0, cmd))
        val2  == IF cmd > 2 THEN Xor32(addr2, Add32(code.val, Cb1Seeds(2, cmd)))
                 ELSE code.val
    IN Code(addr2, val2)

\* cb1::encrypt_code with "cmd > 1" for "cmd > 2": the value of a command 2
\* code is transformed too.
Cb1EncryptFromCmd2(code) ==
    LET cmd   == Small(Shr32(code.addr, 28))
        tmp   == And32(code.addr, U32(\hff00, 0))
        addr1 == Or32(Shl32(And32(code.addr, U32(0, \hff)), 16),
                      And32(Shr32(code.addr, 8), U32(0, \hffff)))
        addr2 == Xor32(Or32(tmp, And32(Add32(addr1, Cb1Seeds(1, cmd)), U32(\h00ff, \hffff))),
                       Cb1Seeds(0, cmd))
        val2  == IF cmd > 1 THEN Xor32(addr2, Add32(code.val, Cb1Seeds(2, cmd)))
                 ELSE code.val
    IN Code(addr2, val2)

\* cb1::encrypt_code with the top byte of SEEDS[0][cmd] left out of the XOR:
\* the top byte of the address stays as it was.
Cb1EncryptKeepsTopByte(code) ==
    LET cmd   == Small(Shr32(code.addr, 28))
        tmp   == And32(code.addr, U32(\hff00, 0))
        addr1 == Or32(Shl32(And32(code.addr, U32(0, \hff)), 16),
                      And32(Shr32(code.addr, 8), U32(0, \hffff)))
        addr2 == Xor32(Or32(tmp, And32(Add32(addr1, Cb1Seeds(1, cmd)), U32(\h00ff, \hffff))),
                       And32(Cb1Seeds(0, cmd), U32(\h00ff, \hffff)))
        val2  == IF cmd > 2 THEN Xor32(addr2, Add32(code.val, Cb1Seeds(2, cmd)))
                 ELSE code.val
    IN Code(addr2, val2)

\* cb1::encrypt_code
cb1_encrypt_code(code) ==
    LET cmd   == Small(Shr32(code.addr, 28))
        tmp   == And32(code.addr, U32(\hff00, 0))
        addr1 == Or32(Shl32(And32(code.addr, U32(0, \hff)), 16),
                      And32(Shr32(code.addr, 8), U32(0, \hffff)))
        addr2 == Xor32(Or32(tmp, And32(Add32(addr1, Cb1Seeds(1, cmd)), U32(\h00ff, \hffff))),
                       Cb1Seeds(0, cmd))
        val2  == IF cmd > 2 THEN Xor32(addr2, Add32(code.val, Cb1Seeds(2, cmd)))
                 ELSE code.val
    IN Code(addr2, val2)

\* cb1::decrypt_code with "cmd > 3" for "cmd > 2": the value of a command 3
\* code is left as it is.
Cb1DecryptSkipsCmd3(code) ==
    LET cmd   == Small(Shr32(code.addr, 28))
        val2  == IF cmd > 3 THEN Sub32(Xor32(code.addr, code.val), Cb1Seeds(2, cmd))
                 ELSE code.val
        tmp   == Xor32(code.addr, Cb1Seeds(0, cmd))
        addr1 == Sub32(tmp, Cb1Seeds(1, cmd))
        addr2 == Or32(Or32(And32(tmp, U32(\hff00, 0)),
                           Shl32(And32(addr1, U32(0, \hffff)), 8)),
                      And32(Shr32(addr1, 16), U32(0, \hff)))
    IN Code(addr2, val2)

\* cb1::decrypt_code
cb1_decrypt_code(code) ==
    LET cmd   == Small(Shr32(code.addr, 28))
        val2  == IF cmd > 2 THEN Sub32(Xor32(code.addr, code.val), Cb1Seeds(2, cmd))
                 ELSE code.val
        tmp   == Xor32(code.addr, Cb1Seeds(0, cmd))
        addr1 == Sub32(tmp, Cb1Seeds(1, cmd))
        addr2 == Or32(Or32(And32(tmp, U32(\hff00, 0)),
                           Shl32(And32(addr1, U32(0, \hffff)), 8)),
                      And32(Shr32(addr1, 16), U32(0, \hff)))
    IN Code(addr2, val2)

----------------------------------------------------------------------------
(* src/src/cb7.rs: constants                                               *)

BEEFCODE == U32(\hbeef, \hc0de)

RC4_KEY ==
    << U32(\hd0db, \ha9d7), U32(\h13a0, \ha96c), U32(\h8041, \h0df0),
       U32(\h2ccd, \hbe1f), U32(\he570, \ha86b) >>

\* A u64 as its eight little-endian bytes, from its four 16-bit quarters.
U64(q3, q2, q1, q0) == U32(q1, q0) \o U32(q3, q2)

RSA_DEC_KEY == U64(0, 0, 0, 11)

RSA_ENC_KEY == U64(\h2538, \hc5b6, \h98b3, \h4b03)

RSA_MODULUS == U64(\hffff, \hffff, \hffff, \hfff5)

ZERO_SEEDS == [r \in 1..5 |-> [k \in 1..256 |-> 0]]

Cb7SeedsRow0 ==
    << \h84, \h01, \h21, \ha4, \hfa, \h4d, \h50, \h8d, \h75, \h33, \hc5, \hf7, \h4a, \h6d, \h7c, \ha6,
       \h1c, \hf8, \h40, \h18, \ha1, \hb3, \ha2, \hf9, \h6a, \h19, \h63, \h66, \h29, \hae, \h10, \h75,
       \h84, \h7d, \hec, \h6a, \hf9, \h2d, \h8e, \h33, \h44, \h5c, \h33, \h6d, \h78, \h3e, \h1b, \h6c,
       \h02, \he0, \h7d, \h77, \h1d, \hb1, \h61, \h2a, \hcd, \hc1, \h38, \h53, \h1f, \ha1, \h6e, \h3d,
       \h03, \h0d, \h05, \hdc, \h50, \h19, \h85, \h89, \h9b, \hf1, \h8a, \hc2, \hd1, \h5c, \h22, \hc4,
       \h11, \h29, \hf6, \h13, \hec, \h06, \he4, \hbd, \h08, \h9e, \hb7, \h8d, \h72, \h92, \h10, \h3c,
       \h41, \h4e, \h81, \h55, \h08, \h9c, \ha3, \hbc, \ha1, \h79, \hb0, \h7a, \h94, \h3a, \h39, \h95,
       \h7a, \hc6, \h96, \h21, \hb0, \h07, \h17, \h5e, \h53, \h54, \h08, \hcf, \h85, \h6c, \h4b, \hbe,
       \h30, \h82, \hdd, \h1d, \h3a, \h24, \h3c, \hb2, \h67, \h0c, \h36, \h03, \h51, \h60, \h3f, \h67,
       \hf1, \hb2, \h77, \hdc, \h12, \h9d, \h7b, \hce, \h65, \hf8, \h75, \hea, \h23, \h63, \h99, \h54,
       \h37, \hc0, \h3c, \h42, \h77, \h12, \hb7, \hca, \h54, \hf1, \h26, \h1d, \h1e, \hd1, \hab, \h2c,
       \haf, \hb6, \h91, \h2e, \hbd, \h84, \h0b, \hf2, \h1a, \h1e, \h26, \h1e, \h00, \h12, \hb7, \h77,
       \hd6, \h61, \h1c, \hce, \ha9, \h10, \h19, \haa, \h88, \he6, \h35, \h29, \h32, \h5f, \h57, \ha7,
       \h94, \h93, \ha1, \h2b, \heb, \h9b, \h17, \h2a, \haa, \h60, \hd5, \h19, \hb2, \h4e, \h5a, \he2,
       \hc9, \h4a, \h00, \h68, \h6e, \h59, \h36, \ha6, \ha0, \hf9, \h19, \ha2, \hc7, \hc9, \hd4, \h29,
       \h5c, \h99, \h3c, \h5c, \he2, \hcb, \h94, \h40, \h8b, \hf4, \h3b, \hd2, \h38, \h7d, \hbf, \hd0 >>

Cb7SeedsRow1 ==
    << \hcc, \h6d, \h5d, \h0b, \h70, \h25, \h5d, \h68, \hfe, \hbe, \h6c, \h3f, \ha4, \hd9, \h95, \h5f,
       \h30, \hae, \h34, \h39, \h00, \h89, \hdc, \h5a, \hc8, \h82, \h24, \h3a, \hfc, \hda, \h3c, \h1f,
       \h73, \h3f, \h63, \haa, \h53, \hbd, \h4e, \hb5, \h33, \h48, \h59, \hc1, \hb7, \he0, \h0c, \h99,
       \hec, \h3b, \h32, \h26, \hb3, \hb1, \he2, \h8e, \h54, \h41, \h55, \hdb, \h1d, \h90, \h0b, \h48,
       \hf3, \h3f, \hca, \h1f, \h19, \heb, \h7f, \h56, \h52, \hd7, \h20, \h67, \h59, \h4f, \h4e, \hdc,
       \hbb, \h6a, \h8e, \h45, \h88, \h0b, \h93, \hac, \hcd, \h0e, \h29, \h18, \h7a, \h16, \h8d, \h8d,
       \hc2, \h88, \h6a, \h9d, \h39, \hf4, \h93, \h14, \hcd, \he0, \h6b, \hc7, \h28, \h21, \h5c, \h97,
       \h70, \h7c, \hab, \h53, \h46, \h33, \h03, \h18, \hdf, \h91, \hfe, \h06, \hc0, \hff, \ha2, \h58,
       \hf3, \hb0, \h6b, \h9b, \h71, \h91, \h23, \hda, \h92, \h67, \h14, \h34, \h9f, \ha5, \haf, \h65,
       \h62, \he8, \h7f, \h79, \h35, \h32, \h29, \h3e, \h4f, \hdc, \hc7, \h8e, \hf1, \h21, \h9d, \h3b,
       \h61, \hfc, \h0b, \h02, \hec, \he4, \ha7, \hea, \h77, \he7, \h21, \h63, \h97, \h7f, \h23, \h8a,
       \h8b, \hbe, \h4e, \h90, \hc0, \h89, \h04, \h44, \h90, \h57, \h41, \hb5, \h74, \had, \hb1, \he9,
       \hf3, \h91, \hc7, \h27, \h3e, \h00, \h81, \h99, \hee, \h38, \hf5, \h32, \h4f, \h27, \h4f, \h64,
       \h39, \h3d, \hd3, \h0b, \h99, \hd5, \h99, \hd6, \h10, \h4b, \h43, \h17, \h38, \h34, \h54, \h63,
       \h19, \h36, \hbd, \h15, \hb1, \h06, \h1e, \hde, \h1b, \haf, \heb, \hfa, \h56, \hb8, \h8d, \h9d,
       \h14, \h1a, \ha6, \h49, \h56, \h19, \hca, \hc1, \h40, \h6d, \h71, \hde, \h68, \hc1, \hc3, \h4a >>

Cb7SeedsRow2 ==
    << \h69, \h31, \h5c, \hab, \h7f, \h5b, \he9, \h81, \h32, \h58, \h32, \h0a, \h97, \hf3, \hc7, \hcf,
       \hbb, \h1d, \hcf, \h0e, \h83, \h35, \h4c, \h58, \hce, \hf7, \h8a, \he4, \hb0, \he4, \h83, \h48,
       \h81, \h77, \h7c, \h3f, \hbc, \h27, \h3a, \h1b, \ha4, \he9, \h06, \ha4, \h15, \hab, \h90, \h10,
       \h7d, \h74, \hda, \hfc, \h36, \h09, \hcc, \hf7, \h12, \hb6, \hf4, \h94, \he9, \h8b, \h6a, \h3b,
       \h5e, \h71, \h46, \h3e, \h0b, \h78, \had, \h3b, \h94, \h5b, \h89, \h85, \ha3, \he0, \h01, \heb,
       \h84, \h41, \haa, \hd7, \hb3, \h17, \h16, \hc3, \h6c, \hb1, \h81, \h73, \hec, \he4, \h6e, \h09,
       \h56, \hee, \h7a, \hf6, \h75, \h6a, \h73, \h95, \h8d, \hda, \h51, \h63, \h8b, \hbb, \he0, \h4d,
       \hf8, \ha0, \h27, \hf2, \h9f, \hc8, \h15, \h5a, \h23, \h85, \h58, \h04, \h4a, \h57, \h28, \h20,
       \h6d, \h9d, \h85, \h83, \h3c, \hbf, \h02, \hb0, \h96, \he8, \h73, \h6f, \h20, \h6e, \hb0, \he4,
       \hc6, \hfa, \h71, \ha6, \h5d, \hc5, \ha0, \ha3, \hf8, \h5c, \h99, \hcb, \h9c, \h04, \h3a, \hb2,
       \h04, \h8d, \ha2, \h9d, \h32, \hf0, \hbd, \haa, \hea, \h81, \h79, \he2, \ha1, \hba, \h89, \h12,
       \hd5, \h9f, \h81, \heb, \h63, \he7, \he5, \hd4, \he9, \h0e, \h30, \hbc, \hcb, \h70, \hdd, \h51,
       \h77, \hc0, \h80, \hb3, \h49, \h03, \h9a, \hb8, \h8c, \ha7, \h63, \h62, \h8f, \h72, \h5c, \ha6,
       \ha0, \hcf, \h4f, \hb4, \h86, \hfd, \h49, \hfa, \h4a, \h85, \hdb, \hfe, \h61, \hb7, \h3a, \hd7,
       \h83, \h70, \h57, \h49, \h83, \ha7, \h10, \h73, \h74, \h37, \h87, \hfd, \h6b, \h28, \hb7, \h31,
       \h1e, \h54, \h1c, \he9, \hd0, \hb1, \hca, \h76, \h3b, \h21, \hf7, \h67, \hbb, \h48, \h69, \h39 >>

Cb7SeedsRow3 ==
    << \h8d, \hd1, \h8c, \h7b, \h83, \h8c, \ha8, \h18, \ha7, \h4a, \h14, \h03, \h88, \hb3, \hce, \h74,
       \hbf, \h5b, \h87, \h67, \ha7, \h85, \h6b, \h62, \h96, \h7c, \ha9, \ha6, \hf6, \h9e, \hf4, \h73,
       \hc5, \hc4, \hb0, \h2b, \h73, \h2e, \h36, \h77, \hdf, \hba, \h57, \hff, \h7f, \he9, \h84, \he1,
       \h8d, \h7b, \ha2, \hef, \h4f, \h10, \hf3, \hd3, \he8, \hb4, \hba, \h20, \h28, \h79, \h18, \hd6,
       \h0f, \h1c, \haa, \hbd, \h0e, \h45, \hf7, \h6c, \h68, \hb9, \h29, \h40, \h1a, \hcf, \hb6, \h0a,
       \h13, \hf8, \hc0, \h9c, \h87, \h10, \h36, \h14, \h73, \ha1, \h75, \h27, \h14, \h55, \haf, \h78,
       \h9a, \h08, \hc9, \h05, \hf2, \hec, \h24, \h1b, \h07, \h4a, \hdc, \hf6, \h48, \hc6, \h25, \hcd,
       \h12, \h1d, \haf, \h51, \h8f, \he9, \hca, \h2c, \h80, \h57, \h78, \hb7, \h96, \h07, \h19, \h77,
       \h6e, \h16, \h45, \h47, \h8e, \h9c, \h18, \h55, \hf1, \h72, \hb3, \h8a, \hea, \h4e, \h8d, \h90,
       \h2e, \hbc, \h08, \hac, \hf6, \ha0, \h5c, \h16, \he3, \h7a, \hee, \h67, \hb8, \h58, \hdc, \h16,
       \h40, \hed, \hf9, \h18, \hb3, \h0e, \hd8, \hee, \he1, \hfa, \hc3, \h9f, \h82, \h99, \h32, \h41,
       \h34, \hbe, \hc9, \h50, \h36, \he5, \h66, \haa, \h0d, \h43, \hf0, \h3f, \h26, \h7c, \hf3, \h87,
       \h26, \ha4, \hf5, \hf8, \ha0, \h32, \h46, \h74, \h2e, \h5a, \he2, \he7, \h6b, \h02, \ha8, \hd0,
       \hcf, \hb8, \h33, \h15, \h3b, \h4f, \hc7, \h7a, \he8, \h3d, \h75, \hd2, \hfe, \h42, \h22, \h22,
       \ha8, \h21, \h33, \hfb, \hb0, \h87, \h92, \h99, \hca, \hd7, \hd7, \h88, \hac, \he4, \h75, \h83,
       \h56, \hbf, \hce, \hed, \h4f, \hf6, \h22, \h07, \hca, \hbc, \hd2, \hef, \h1b, \h75, \hd6, \h2d >>

Cb7SeedsRow4 ==
    << \hd2, \h4f, \h76, \h51, \heb, \ha1, \had, \h84, \hd6, \h19, \he6, \h97, \hd9, \hd3, \h58, \h6b,
       \hfb, \hb8, \h20, \hfd, \h49, \h56, \h1b, \h50, \h61, \h10, \h57, \hb8, \h78, \h07, \hc1, \h4a,
       \ha2, \hea, \h47, \h80, \h00, \h4a, \hb3, \h4e, \h6f, \h1a, \hc1, \hd5, \h22, \hf8, \h54, \h2f,
       \h33, \he5, \h7f, \hb4, \h13, \h02, \ha3, \ha1, \h8b, \h1c, \h6f, \h19, \hd6, \h42, \hb3, \h24,
       \h4b, \h04, \h30, \h10, \h02, \h23, \h6f, \h10, \h03, \h4b, \h0e, \h33, \h55, \h22, \ha4, \h78,
       \hec, \hd2, \h4a, \h11, \h8b, \hfc, \hff, \h14, \h7a, \hed, \h06, \h47, \h86, \hfc, \hf0, \h03,
       \h0f, \h75, \h07, \he4, \h9a, \hd3, \hbb, \h0d, \h97, \h1f, \h6f, \h80, \h62, \ha6, \h9e, \hc6,
       \hb1, \h10, \h81, \ha1, \h6d, \h55, \h0f, \h9e, \h1b, \hb7, \hf5, \hdc, \h62, \ha8, \h63, \h58,
       \hcf, \h2f, \h6a, \had, \h5e, \hd3, \h3f, \hbd, \h8d, \h9b, \h2a, \h8b, \hdf, \h60, \hb9, \haf,
       \haa, \h70, \hb4, \ha8, \h17, \h99, \h72, \hb9, \h88, \h9d, \h3d, \h2a, \h11, \h87, \h1e, \hf3,
       \h9d, \h33, \h8d, \hed, \h52, \h60, \h36, \h71, \hff, \h7b, \h37, \h84, \h3d, \h27, \h9e, \hd9,
       \hdf, \h58, \hf7, \hc2, \h58, \h0c, \h9d, \h5e, \hee, \h23, \h83, \h70, \h3f, \h95, \hbc, \hf5,
       \h42, \h86, \h91, \h5b, \h3f, \h77, \h31, \hd2, \hb7, \h09, \h59, \h53, \hf5, \hf2, \he5, \hf1,
       \hdc, \h92, \h83, \h14, \hc1, \ha2, \h25, \h62, \h13, \hfd, \hd4, \hc5, \h54, \h9d, \h9c, \h27,
       \h6c, \hc2, \h75, \h8b, \hbc, \hc7, \h4e, \h0a, \hf6, \h5c, \h2f, \h12, \h8e, \h25, \hbb, \hf2,
       \h5f, \h89, \haa, \hea, \hd9, \hcd, \h05, \h74, \h20, \hd6, \h17, \hed, \hf0, \h66, \h6c, \h7b >>

SEEDS == <<Cb7SeedsRow0, Cb7SeedsRow1, Cb7SeedsRow2, Cb7SeedsRow3, Cb7SeedsRow4>>

----------------------------------------------------------------------------
(* src/src/cb7.rs: helpers                                                 *)

\* is_beefcode
is_beefcode(addr) == And32(addr, U32(\hffff, \hfffe)) = BEEFCODE

\* mul_encrypt
mul_encrypt(a, b) == Mul32(a, Or32(b, U32(0, 1)))

\* One Newton step of mod_inverse: y * (2 - y * x).
ModInverseStep(y, x) == Mul32(y, Sub32(U32(0, 2), Mul32(y, x)))

\* mod_inverse with three steps of the recurrence instead of four.
ModInverseThreeSteps(x) ==
    ModInverseStep(ModInverseStep(ModInverseStep(x, x), x), x)

\* mod_inverse
mod_inverse(x) ==
    ModInverseStep(ModInverseStep(ModInverseStep(ModInverseStep(x, x), x), x), x)

\* mul_decrypt
mul_decrypt(a, b) == Mul32(a, mod_inverse(Or32(b, U32(0, 1))))

\* bytes_of(&[u32]): the little-endian bytes of a sequence of words.
RECURSIVE BytesOf(_)
BytesOf(ws) == IF ws = <<>> THEN <<>> ELSE Head(ws) \o BytesOf(Tail(ws))

\* The words a byte buffer holds (the inverse view of BytesOf).
WordsOf(bs) == [k \in 1..(Len(bs) \div 4) |-> SubSeq(bs, 4 * k - 3, 4 * k)]

\* cast_slice(&self.seeds)[k]: word k of the seed matrix seen as 320 words.
SeedWord(seeds, k) ==
    LET row == seeds[(k \div 64) + 1]
        o   == (k % 64) * 4
    IN <<row[o + 1], row[o + 2], row[o + 3], row[o + 4]>>

\* a < b on 64-bit numbers (BigUint comparison).
RECURSIVE Less64At(_, _, _)
Less64At(a, b, k) ==
    IF k = 0 THEN FALSE
    ELSE IF a[k] /= b[k] THEN a[k] < b[k]
    ELSE Less64At(a, b, k - 1)

Less64(a, b) == Less64At(a, b, 8)

\* The column sums of the schoolbook product of two 8-byte numbers.
MulColumns(a, b) ==
    << a[1] * b[1],
       a[1] * b[2] + a[2] * b[1],
       a[1] * b[3] + a[2] * b[2] + a[3] * b[1],
       a[1] * b[4] + a[2] * b[3] + a[3] * b[2] + a[4] * b[1],
       a[1] * b[5] + a[2] * b[4] + a[3] * b[3] + a[4] * b[2] + a[5] * b[1],
       a[1] * b[6] + a[2] * b[5] + a[3] * b[4] + a[4] * b[3] + a[5] * b[2] + a[6] * b[1],
       a[1] * b[7] + a[2] * b[6] + a[3] * b[5] + a[4] * b[4] + a[5] * b[3] + a[6] * b[2]
         + a[7] * b[1],
       a[1] * b[8] + a[2] * b[7] + a[3] * b[6] + a[4] * b[5] + a[5] * b[4] + a[6] * b[3]
         + a[7] * b[2] + a[8] * b[1],
       a[2] * b[8] + a[3] * b[7] + a[4] * b[6] + a[5] * b[5] + a[6] * b[4] + a[7] * b[3]
         + a[8] * b[2],
       a[3] * b[8] + a[4] * b[7] + a[5] * b[6] + a[6] * b[5] + a[7] * b[4] + a[8] * b[3],
       a[4] * b[8] + a[5] * b[7] + a[6] * b[6] + a[7] * b[5] + a[8] * b[4],
       a[5] * b[8] + a[6] * b[7] + a[7] * b[6] + a[8] * b[5],
       a[6] * b[8] + a[7] * b[7] + a[8] * b[6],
       a[7] * b[8] + a[8] * b[7],
       a[8] * b[8],
       0 >>

\* Carry propagation over columns k.. of cols with carry c coming in: the
\* bytes of the columns and the carry out of the last.
RECURSIVE Carry(_, _, _)
Carry(cols, k, c) ==
    IF k > Len(cols) THEN [carry |-> c, out |-> <<>>]
    ELSE Bind(cols[k] + c, LAMBDA t :
         Bind(Carry(cols, k + 1, t \div 256), LAMBDA r :
              [carry |-> r.carry, out |-> <<t % 256>> \o r.out]))

\* The 16-byte product of two 8-byte numbers.
Mul64(a, b) == Carry(MulColumns(a, b), 1, 0).out

\* lo + 11 * hi for 8-byte lo and hi: 8 bytes and the carry out of them.
Fold64(lo, hi) == Carry([k \in 1..8 |-> lo[k] + 11 * hi[k]], 1, 0)

\* a + m for an 8-byte a and a small m: 8 bytes and the carry out of them.
AddSmall(a, m) == Carry(a, 1, m)

\* (a * b) mod RSA_MODULUS.  RSA_MODULUS = 2^64 - 11, so 2^64 is congruent
\* to 11: the upper half of a number is folded into its lower half until
\* the result is below the modulus.
ModMul(a, b) ==
    Bind(Mul64(a, b), LAMBDA p :
    Bind(Fold64(SubSeq(p, 1, 8), SubSeq(p, 9, 16)), LAMBDA t :
    Bind(AddSmall(t.out, 11 * t.carry), LAMBDA u :
         IF u.carry > 0 \/ ~Less64(u.out, RSA_MODULUS)
         THEN AddSmall(u.out, 11).out
         ELSE u.out)))

\* Bit i of an 8-byte number.
Bit64(e, i) == (e[(i \div 8) + 1] \div (2 ^ (i % 8))) % 2

\* The number of significant bits of an 8-byte number.
RECURSIVE BitLen64(_, _)
BitLen64(e, n) == IF n = 0 \/ Bit64(e, n - 1) = 1 THEN n ELSE BitLen64(e, n - 1)

\* BigUint::modpow(m, e, RSA_MODULUS) by binary exponentiation.
ModPow(m, e) ==
    For(LAMBDA s, i :
            [result |-> IF Bit64(e, i) = 1 THEN ModMul(s.result, s.base) ELSE s.result,
             base   |-> ModMul(s.base, s.base)],
        0, BitLen64(e, 64), [result |-> U64(0, 0, 0, 1), base |-> m]).result

\* BigUint::to_u32_digits: least significant first, no leading zero digit.
ToU32Digits(n) ==
    LET lo == SubSeq(n, 1, 4)
        hi == SubSeq(n, 5, 8)
    IN IF hi /= Zero32 THEN <<lo, hi>>
       ELSE IF lo /= Zero32 THEN <<lo>>
       ELSE <<>>

\* rsa_crypt: ok is FALSE when indexing digits[1] or digits[0] is out of
\* bounds and the call panics.
rsa_crypt(code, rsakey, modulus) ==
    IF Less64(code.val \o code.addr, modulus)
    THEN Bind(ToU32Digits(ModPow(code.val \o code.addr, rsakey)), LAMBDA digits :
              IF Len(digits) < 2
              THEN [ok |-> FALSE, code |-> code]
              ELSE [ok |-> TRUE, code |-> Code(digits[2], digits[1])])
    ELSE [ok |-> TRUE, code |-> code]

----------------------------------------------------------------------------
(* src/src/cb7.rs: the v7 engine                                           *)

\* Cb7::new
Cb7New ==
    [seeds |-> ZERO_SEEDS, key |-> [i \in 1..5 |-> Zero32],
     beefcodf |-> FALSE, initialized |-> FALSE]

\* The key schedule with every byte of a key word taken from the same row
\* of the seeds.
KeyFromSeedsSameRow(seeds, i, idx) ==
    Or32(Or32(Or32(Shl32(U32(0, seeds[(i % 4) + 1][idx[4] + 1]), 24),
                   Shl32(U32(0, seeds[(i % 4) + 1][idx[3] + 1]), 16)),
              Shl32(U32(0, seeds[(i % 4) + 1][idx[2] + 1]), 8)),
         U32(0, seeds[(i % 4) + 1][idx[1] + 1]))

\* The key word the seeds give for index i of 0..3 and the bytes idx of val.
KeyFromSeeds(seeds, i, idx) ==
    Or32(Or32(Or32(Shl32(U32(0, seeds[((i + 3) % 4) + 1][idx[4] + 1]), 24),
                   Shl32(U32(0, seeds[((i + 2) % 4) + 1][idx[3] + 1]), 16)),
              Shl32(U32(0, seeds[((i + 1) % 4) + 1][idx[2] + 1]), 8)),
         U32(0, seeds[(i % 4) + 1][idx[1] + 1]))

\* "Set up key and seeds" with the special case for a second BEEFC0DE
\* 00000000 left out: the key and seeds are set as on the first call.
BeefcodeSetupNoSpecialCase(cb7, val) ==
    IF val /= Zero32
    THEN [seeds |-> IF cb7.initialized THEN cb7.seeds ELSE SEEDS,
          key   |-> [i \in 1..5 |->
                       IF i < 5
                       THEN KeyFromSeeds(IF cb7.initialized THEN cb7.seeds ELSE SEEDS,
                                         i - 1, val)
                       ELSE IF cb7.initialized THEN cb7.key[i] ELSE RC4_KEY[i]]]
    ELSE [seeds |-> ZERO_SEEDS, key |-> RC4_KEY]

\* "Set up key and seeds" of Cb7::beefcode: the seeds and key before the
\* RC4 pass.
BeefcodeSetup(cb7, val) ==
    IF ~cb7.initialized
    THEN IF val /= Zero32
         THEN [seeds |-> SEEDS,
               key   |-> [i \in 1..5 |-> IF i < 5 THEN KeyFromSeeds(SEEDS, i - 1, val)
                                         ELSE RC4_KEY[i]]]
         ELSE [seeds |-> ZERO_SEEDS, key |-> RC4_KEY]
    ELSE IF val /= Zero32
         THEN [seeds |-> cb7.seeds,
               key   |-> [i \in 1..5 |-> IF i < 5 THEN KeyFromSeeds(cb7.seeds, i - 1, val)
                                         ELSE cb7.key[i]]]
         ELSE [seeds |-> ZERO_SEEDS,
               key   |-> [i \in 1..5 |-> IF i < 5 THEN Zero32 ELSE cb7.key[i]]]

\* One round of the RC4 pass with the key encrypted by an RC4 of its own
\* instead of the one that encrypted the row.
BeefcodeRowFreshForKey(s, i) ==
    Bind(Rc4Crypt(Rc4New(s.k), s.seeds[i + 1]), LAMBDA row :
    Bind(Rc4Crypt(Rc4New(s.k), s.k), LAMBDA key :
         [seeds |-> [s.seeds EXCEPT ![i + 1] = row.buf],
          k     |-> key.buf,
          rc4   |-> key.rc4]))

\* One round of "Use key to encrypt seeds with RC4" of Cb7::beefcode, on row
\* i: s.k is the key as 20 bytes, and rc4 the instance as the round leaves
\* it.
BeefcodeRow(s, i) ==
    Bind(Rc4Crypt(Rc4New(s.k), s.seeds[i + 1]), LAMBDA row :
    Bind(Rc4Crypt(row.rc4, s.k), LAMBDA key :
         [seeds |-> [s.seeds EXCEPT ![i + 1] = row.buf],
          k     |-> key.buf,
          rc4   |-> key.rc4]))

\* Cb7::beefcode with the assertion left out: any address rekeys.
BeefcodeUnchecked(cb7, addr, val) ==
    Bind(BeefcodeSetup(cb7, val), LAMBDA setup :
    Bind(For(BeefcodeRow, 0, 5, [seeds |-> setup.seeds, k |-> BytesOf(setup.key)]),
         LAMBDA done :
         [ok  |-> TRUE,
          cb7 |-> [seeds       |-> done.seeds,
                   key         |-> WordsOf(done.k),
                   beefcodf    |-> And32(addr, U32(0, 1)) /= Zero32,
                   initialized |-> TRUE]]))

\* Cb7::beefcode: ok is FALSE when the assertion on the address fails, and
\* the engine is then as it was.
beefcode(cb7, addr, val) ==
    IF ~is_beefcode(addr)
    THEN [ok |-> FALSE, cb7 |-> cb7]
    ELSE Bind(BeefcodeSetup(cb7, val), LAMBDA setup :
         Bind(For(BeefcodeRow, 0, 5, [seeds |-> setup.seeds, k |-> BytesOf(setup.key)]),
              LAMBDA done :
              [ok  |-> TRUE,
               cb7 |-> [seeds       |-> done.seeds,
                        key         |-> WordsOf(done.k),
                        beefcodf    |-> And32(addr, U32(0, 1)) /= Zero32,
                        initialized |-> TRUE]]))

\* Cb7::default without its beefcode call: the engine Cb7::new builds.
Cb7DefaultUnkeyed == Cb7New

\* impl Default for Cb7
Cb7Default == beefcode(Cb7New, BEEFCODE, Zero32).cb7

\* The RC4 stage of both directions: the code under a fresh RC4 keyed by key.
Rc4Stage(key, code) ==
    Bind(Rc4Crypt(Rc4New(BytesOf(key)), BytesOf(<<code.addr, code.val>>)).buf, LAMBDA out :
         Code(SubSeq(out, 1, 4), SubSeq(out, 5, 8)))

\* One cycle of the encryption loop of Cb7::encrypt_code_mut.
EncryptRound(seeds, c, i) ==
    Bind(Sub32(Xor32(Add32(c.addr, SeedWord(seeds, 2 * 64 + i)), SeedWord(seeds, i)),
               Xor32(c.val, SeedWord(seeds, 4 * 64 + i))), LAMBDA addr :
         Code(addr,
              Add32(Xor32(Sub32(c.val, SeedWord(seeds, 3 * 64 + i)), SeedWord(seeds, 64 + i)),
                    Xor32(addr, SeedWord(seeds, 4 * 64 + i)))))

\* One cycle of the decryption loop of Cb7::decrypt_code_mut.
DecryptRound(seeds, c, i) ==
    Bind(Add32(Xor32(Sub32(c.val, Xor32(c.addr, SeedWord(seeds, 4 * 64 + i))),
                     SeedWord(seeds, 64 + i)),
               SeedWord(seeds, 3 * 64 + i)), LAMBDA val :
         Code(Sub32(Xor32(Add32(c.addr, Xor32(val, SeedWord(seeds, 4 * 64 + i))),
                          SeedWord(seeds, i)),
                    SeedWord(seeds, 2 * 64 + i)),
              val))

\* rc4.crypt(bytes_of_mut(&mut self.seeds)) under a fresh RC4 keyed by the
\* eight bytes of a code.
CryptSeeds(seeds, code) ==
    Bind(Rc4Crypt(Rc4New(BytesOf(<<code.addr, code.val>>)),
                  seeds[1] \o seeds[2] \o seeds[3] \o seeds[4] \o seeds[5]).buf, LAMBDA out :
         << SubSeq(out, 1, 256), SubSeq(out, 257, 512), SubSeq(out, 513, 768),
            SubSeq(out, 769, 1024), SubSeq(out, 1025, 1280) >>)

\* The result of a call that panicked in rsa_crypt: nothing was written to
\* the engine, and the code is as the steps before left it.
Cb7Panic(cb7, code) == [ok |-> FALSE, cb7 |-> cb7, code |-> code, rekeys |-> <<>>]

\* The beefcode handling of Cb7::encrypt_code_mut with the seeds encrypted
\* under the encrypted code instead of the code as passed in.
Cb7EncryptTailKeyedByOutput(cb7, old, code) ==
    IF is_beefcode(old.addr)
    THEN Bind(beefcode(cb7, old.addr, old.val), LAMBDA r :
              [ok |-> r.ok, cb7 |-> r.cb7, code |-> code,
               rekeys |-> << <<old.addr, old.val>> >>])
    ELSE IF cb7.beefcodf
    THEN [ok |-> TRUE, cb7 |-> [cb7 EXCEPT !.seeds = CryptSeeds(cb7.seeds, code),
                                           !.beefcodf = FALSE],
          code |-> code, rekeys |-> <<>>]
    ELSE [ok |-> TRUE, cb7 |-> cb7, code |-> code, rekeys |-> <<>>]

\* The beefcode handling that ends Cb7::encrypt_code_mut: old is the code
\* as passed in, code the encrypted code.
Cb7EncryptTail(cb7, old, code) ==
    IF is_beefcode(old.addr)
    THEN Bind(beefcode(cb7, old.addr, old.val), LAMBDA r :
              [ok |-> r.ok, cb7 |-> r.cb7, code |-> code,
               rekeys |-> << <<old.addr, old.val>> >>])
    ELSE IF cb7.beefcodf
    THEN [ok |-> TRUE, cb7 |-> [cb7 EXCEPT !.seeds = CryptSeeds(cb7.seeds, old),
                                           !.beefcodf = FALSE],
          code |-> code, rekeys |-> <<>>]
    ELSE [ok |-> TRUE, cb7 |-> cb7, code |-> code, rekeys |-> <<>>]

\* Cb7::encrypt_code_mut: the engine and the code after the call, whether
\* the call returned, and the beefcode calls it made.
cb7_encrypt_code_mut(cb7, code) ==
    Bind(Code(mul_encrypt(code.addr, Sub32(cb7.key[1], cb7.key[2])),
              mul_encrypt(code.val, Add32(cb7.key[3], cb7.key[4]))), LAMBDA step1 :
    Bind(Rc4Stage(cb7.key, step1), LAMBDA step2 :
    Bind(rsa_crypt(step2, RSA_ENC_KEY, RSA_MODULUS), LAMBDA step3 :
         IF ~step3.ok THEN Cb7Panic(cb7, step2)
         ELSE Cb7EncryptTail(cb7, code,
                  For(LAMBDA c, i : EncryptRound(cb7.seeds, c, i), 0, 64, step3.code)))))

\* The beefcode handling that ends Cb7::decrypt_code_mut: code is the
\* decrypted code.
Cb7DecryptTail(cb7, code) ==
    IF cb7.beefcodf
    THEN [ok |-> TRUE, cb7 |-> [cb7 EXCEPT !.seeds = CryptSeeds(cb7.seeds, code),
                                           !.beefcodf = FALSE],
          code |-> code, rekeys |-> <<>>]
    ELSE IF is_beefcode(code.addr)
    THEN Bind(beefcode(cb7, code.addr, code.val), LAMBDA r :
              [ok |-> r.ok, cb7 |-> r.cb7, code |-> code,
               rekeys |-> << <<code.addr, code.val>> >>])
    ELSE [ok |-> TRUE, cb7 |-> cb7, code |-> code, rekeys |-> <<>>]

\* Cb7::decrypt_code_mut
cb7_decrypt_code_mut(cb7, code) ==
    Bind(For(LAMBDA c, n : DecryptRound(cb7.seeds, c, 63 - n), 0, 64, code), LAMBDA step1 :
    Bind(rsa_crypt(step1, RSA_DEC_KEY, RSA_MODULUS), LAMBDA step2 :
         IF ~step2.ok THEN Cb7Panic(cb7, step1)
         ELSE Bind(Rc4Stage(cb7.key, step2.code), LAMBDA step3 :
                   Cb7DecryptTail(cb7,
                       Code(mul_decrypt(step3.addr, Sub32(cb7.key[1], cb7.key[2])),
                            mul_decrypt(step3.val, Add32(cb7.key[3], cb7.key[4])))))))

----------------------------------------------------------------------------
(* src/src/lib.rs: the stream processor                                    *)

\* Codebreaker::new
CodebreakerNew == [scheme |-> "RAW", cb7 |-> Cb7New, code_lines |-> 0]

\* Codebreaker::new_v7
CodebreakerNewV7 == [scheme |-> "V7", cb7 |-> Cb7Default, code_lines |-> 0]

\* num_code_lines with commands 3 to 6 all taken as two lines long.
NumCodeLinesNoBitTest(addr) ==
    LET cmd == Small(Shr32(addr, 28))
    IN IF cmd < 3 \/ cmd > 6 THEN 1 ELSE 2

\* num_code_lines with commands 4 to 6 taken as three lines long.
NumCodeLinesThree(addr) ==
    LET cmd == Small(Shr32(addr, 28))
    IN IF cmd < 3 \/ cmd > 6 THEN 1
       ELSE IF cmd = 3
            THEN IF And32(addr, U32(\h0040, 0)) /= Zero32 THEN 2 ELSE 1
            ELSE 3

\* num_code_lines
num_code_lines(addr) ==
    LET cmd == Small(Shr32(addr, 28))
    IN IF cmd < 3 \/ cmd > 6 THEN 1
       ELSE IF cmd = 3
            THEN IF And32(addr, U32(\h0040, 0)) /= Zero32 THEN 2 ELSE 1
            ELSE 2

\* The result of a call on a processor: the processor and the code after the
\* call, whether the call returned, and the beefcode calls made on its engine.
Returned(c, code, rekeys) == [ok |-> TRUE, cb |-> c, code |-> code, rekeys |-> rekeys]

\* A call that panicked: the processor is as the panic left it.
Panicked(c, code, rekeys) == [ok |-> FALSE, cb |-> c, code |-> code, rekeys |-> rekeys]

\* SentinelSwitch with "self.scheme = Scheme::V7" left out: the engine is
\* rekeyed and the scheme stays what it was.
SentinelSwitchKeepsScheme(c, sentinel, code, rekeys, lines) ==
    IF is_beefcode(sentinel.addr)
    THEN Bind(beefcode(c.cb7, sentinel.addr, sentinel.val), LAMBDA r :
              Returned([c EXCEPT !.cb7 = r.cb7, !.code_lines = lines], code,
                       Append(rekeys, <<sentinel.addr, sentinel.val>>)))
    ELSE Returned(c, code, rekeys)

\* The closing sentinel check with the call of cb7.beefcode left out: the
\* scheme becomes V7 and the engine stays as it is.
SentinelSwitchNoRekey(c, sentinel, code, rekeys, lines) ==
    IF is_beefcode(sentinel.addr)
    THEN Returned([c EXCEPT !.scheme = "V7", !.code_lines = lines], code, rekeys)
    ELSE Returned(c, code, rekeys)

\* The closing sentinel check calling cb7.beefcode only while the scheme is
\* not yet V7: a processor in V7 leaves the rekey to its engine.
SentinelSwitchOnce(c, sentinel, code, rekeys, lines) ==
    IF is_beefcode(sentinel.addr)
    THEN IF c.scheme = "V7"
         THEN Returned([c EXCEPT !.code_lines = lines], code, rekeys)
         ELSE Bind(beefcode(c.cb7, sentinel.addr, sentinel.val), LAMBDA r :
                   Returned([scheme |-> "V7", cb7 |-> r.cb7, code_lines |-> lines], code,
                            Append(rekeys, <<sentinel.addr, sentinel.val>>)))
    ELSE Returned(c, code, rekeys)

\* "if is_beefcode(..) { self.cb7.beefcode(..); self.scheme = V7; }", which
\* ends encrypt_code_mut (on the old code) and decrypt_code_mut (on the new
\* one); auto_decrypt_code_mut also sets code_lines, to lines.
SentinelSwitch(c, sentinel, code, rekeys, lines) ==
    IF is_beefcode(sentinel.addr)
    THEN Bind(beefcode(c.cb7, sentinel.addr, sentinel.val), LAMBDA r :
              IF r.ok
              THEN Returned([scheme |-> "V7", cb7 |-> r.cb7, code_lines |-> lines], code,
                            Append(rekeys, <<sentinel.addr, sentinel.val>>))
              ELSE Panicked(c, code, rekeys))
    ELSE Returned(c, code, rekeys)

\* Codebreaker::encrypt_code_mut with the closing "if is_beefcode(oldaddr)"
\* left out: the code is encrypted and the processor is not rekeyed.
EncryptCodecOnly(c, code) ==
    IF c.scheme = "V7"
    THEN Bind(cb7_encrypt_code_mut(c.cb7, code), LAMBDA r :
              [ok |-> r.ok, cb |-> [c EXCEPT !.cb7 = r.cb7], code |-> r.code,
               rekeys |-> r.rekeys])
    ELSE Returned(c, cb1_encrypt_code(code), <<>>)

\* Codebreaker::encrypt_code_mut with the sentinel handled first: a sentinel
\* rekeys the engine and switches to V7 before it is encrypted itself.
EncryptSwitchFirst(c, code) ==
    Bind(SentinelSwitch(c, code, code, <<>>, c.code_lines), LAMBDA s :
         IF s.cb.scheme = "V7"
         THEN Bind(cb7_encrypt_code_mut(s.cb.cb7, code), LAMBDA r :
                   [ok |-> r.ok, cb |-> [s.cb EXCEPT !.cb7 = r.cb7], code |-> r.code,
                    rekeys |-> s.rekeys \o r.rekeys])
         ELSE Returned(s.cb, cb1_encrypt_code(code), s.rekeys))

\* Codebreaker::encrypt_code_mut
encrypt_code_mut(c, code) ==
    IF c.scheme = "V7"
    THEN Bind(cb7_encrypt_code_mut(c.cb7, code), LAMBDA r :
              IF ~r.ok THEN Panicked([c EXCEPT !.cb7 = r.cb7], r.code, r.rekeys)
              ELSE SentinelSwitch([c EXCEPT !.cb7 = r.cb7], code, r.code, r.rekeys,
                                  c.code_lines))
    ELSE SentinelSwitch(c, code, cb1_encrypt_code(code), <<>>, c.code_lines)

\* Codebreaker::decrypt_code_mut
decrypt_code_mut(c, code) ==
    IF c.scheme = "V7"
    THEN Bind(cb7_decrypt_code_mut(c.cb7, code), LAMBDA r :
              IF ~r.ok THEN Panicked([c EXCEPT !.cb7 = r.cb7], r.code, r.rekeys)
              ELSE SentinelSwitch([c EXCEPT !.cb7 = r.cb7], r.code, r.code, r.rekeys,
                                  c.code_lines))
    ELSE Bind(cb1_decrypt_code(code), LAMBDA out :
              SentinelSwitch(c, out, out, <<>>, c.code_lines))

\* AutoNotV7 with the closing "if is_beefcode(*addr)" left out: a line is
\* classified, counted and v1-decrypted, and a sentinel among the results is
\* not acted on.
AutoNotV7NoSwitch(c, code) ==
    IF c.code_lines = 0
    THEN IF And32(Shr32(code.addr, 24), U32(0, \h0e)) /= Zero32 /\ ~is_beefcode(code.addr)
         THEN Returned([c EXCEPT !.scheme = "V1",
                                 !.code_lines = num_code_lines(code.addr) - 1],
                       cb1_decrypt_code(code), <<>>)
         ELSE Returned([c EXCEPT !.code_lines = num_code_lines(code.addr) - 1], code, <<>>)
    ELSE Returned([c EXCEPT !.code_lines = c.code_lines - 1],
                  IF c.scheme = "RAW" THEN code ELSE cb1_decrypt_code(code), <<>>)

\* The branch with no "ignore raw beefcode": an unencrypted sentinel at the
\* start of a command is handled as any other line with an encrypted-looking
\* address.
AutoNotV7DecryptsSentinel(c, code) ==
    IF c.code_lines = 0
    THEN IF And32(Shr32(code.addr, 24), U32(0, \h0e)) /= Zero32
         THEN Bind(cb1_decrypt_code(code), LAMBDA out :
                   SentinelSwitch([c EXCEPT !.scheme = "V1",
                                            !.code_lines = num_code_lines(code.addr) - 1],
                                  out, out, <<>>, 1))
         ELSE SentinelSwitch([c EXCEPT !.scheme = "RAW",
                                       !.code_lines = num_code_lines(code.addr) - 1],
                             code, code, <<>>, 1)
    ELSE IF c.scheme = "RAW"
         THEN Returned([c EXCEPT !.code_lines = c.code_lines - 1], code, <<>>)
         ELSE Bind(cb1_decrypt_code(code), LAMBDA out :
                   SentinelSwitch([c EXCEPT !.code_lines = c.code_lines - 1],
                                  out, out, <<>>, 1))

\* The branch of auto_decrypt_code_mut taken while scheme is not V7.
AutoNotV7(c, code) ==
    IF c.code_lines = 0
    THEN IF And32(Shr32(code.addr, 24), U32(0, \h0e)) /= Zero32
         THEN IF is_beefcode(code.addr)
              THEN \* ignore raw beefcode
                   Returned([c EXCEPT !.code_lines = num_code_lines(code.addr) - 1],
                            code, <<>>)
              ELSE Bind(cb1_decrypt_code(code), LAMBDA out :
                        SentinelSwitch([c EXCEPT !.scheme = "V1",
                                                 !.code_lines = num_code_lines(code.addr) - 1],
                                       out, out, <<>>, 1))
         ELSE SentinelSwitch([c EXCEPT !.scheme = "RAW",
                                       !.code_lines = num_code_lines(code.addr) - 1],
                             code, code, <<>>, 1)
    ELSE IF c.scheme = "RAW"
         THEN Returned([c EXCEPT !.code_lines = c.code_lines - 1], code, <<>>)
         ELSE Bind(cb1_decrypt_code(code), LAMBDA out :
                   SentinelSwitch([c EXCEPT !.code_lines = c.code_lines - 1],
                                  out, out, <<>>, 1))

\* The V7 branch of auto_decrypt_code_mut without "self.code_lines = 0" for
\* a first line FFFFFFFF: the line count of the command is kept.
AutoV7KeepsLines(c, code) ==
    Bind(cb7_decrypt_code_mut(c.cb7, code), LAMBDA r :
    Bind(IF c.code_lines = 0 THEN num_code_lines(r.code.addr) ELSE c.code_lines,
         LAMBDA lines :
         IF ~r.ok THEN Panicked([c EXCEPT !.cb7 = r.cb7], r.code, r.rekeys)
         ELSE IF c.code_lines = 0 /\ lines = 1 /\ r.code.addr = U32(\hffff, \hffff)
         THEN Returned([c EXCEPT !.cb7 = r.cb7, !.code_lines = lines], r.code, r.rekeys)
         ELSE SentinelSwitch([c EXCEPT !.cb7 = r.cb7, !.code_lines = lines - 1],
                             r.code, r.code, r.rekeys, 1)))

\* The branch of auto_decrypt_code_mut taken while scheme is V7.
AutoV7(c, code) ==
    Bind(cb7_decrypt_code_mut(c.cb7, code), LAMBDA r :
    Bind(IF c.code_lines = 0 THEN num_code_lines(r.code.addr) ELSE c.code_lines,
         LAMBDA lines :
         IF ~r.ok THEN Panicked([c EXCEPT !.cb7 = r.cb7], r.code, r.rekeys)
         ELSE IF c.code_lines = 0 /\ lines = 1 /\ r.code.addr = U32(\hffff, \hffff)
         THEN \* changing encryption via "FFFFFFFF 000xnnnn" is not supported
              Returned([c EXCEPT !.cb7 = r.cb7, !.code_lines = 0], r.code, r.rekeys)
         ELSE SentinelSwitch([c EXCEPT !.cb7 = r.cb7, !.code_lines = lines - 1],
                             r.code, r.code, r.rekeys, 1)))

\* Codebreaker::auto_decrypt_code_mut decrypting every line the way
\* decrypt_code_mut does, with no classification of the line.
AutoAsDecrypt(c, code) == decrypt_code_mut(c, code)

\* Codebreaker::auto_decrypt_code_mut with no test of the scheme: a
\* processor in V7 classifies its lines as one in Raw or V1 does.
AutoAlwaysClassifies(c, code) == AutoNotV7(c, code)

\* Codebreaker::auto_decrypt_code_mut
auto_decrypt_code_mut(c, code) ==
    IF c.scheme /= "V7" THEN AutoNotV7(c, code) ELSE AutoV7(c, code)

----------------------------------------------------------------------------
(* The stream processor under arbitrary calls                              *)

\* Number of calls made on one processor.
MaxCalls == 2

\* What a step records of a call: the operation, the code passed and the
\* code returned, whether the call returned, the beefcode calls it made on
\* the v7 engine, and the callee as it was before the call.
Call(op, before, code, r) ==
    [op |-> op, in |-> code, out |-> r.code, ok |-> r.ok, rekeys |-> r.rekeys,
     before |-> before]

\* No call made yet.
NoCall ==
    [op |-> "none", in |-> Code(Zero32, Zero32), out |-> Code(Zero32, Zero32),
     ok |-> TRUE, rekeys |-> <<>>, before |-> CodebreakerNew]

\* Codes passed to encrypt_code: the two sentinels, an ordinary code, and a
\* code whose step 2 result under the preloaded key is 1.
EncInputs ==
    { Code(BEEFCODE, Zero32),
      Code(U32(\hbeef, \hc0df), U32(\hb16b, \h00b5)),
      Code(U32(\h2096, \hf5b8), U32(0, \h00be)),
      Code(U32(\h2915, \hdab9), U32(\h2e7a, \h1444)) }

\* Codes passed to decrypt_code: the v1 ciphertext of BEEFC0DE 00000000, the
\* v7 ciphertexts of BEEFC0DE 00000000 after BEEFC0DF B16B00B5 and under the
\* preloaded key, and a code whose step 1 result under the preloaded key is 0.
DecInputs ==
    { Code(U32(\hb433, \h6fa9), U32(\h4dfe, \hfb79)),
      Code(U32(\h66c4, \hc75d), U32(\h92fe, \h4d2c)),
      Code(U32(\h8787, \hc575), U32(\h1ac4, \hc1b4)),
      Code(U32(\h05eb, \hd278), U32(\h3076, \h3c10)) }

\* Codes passed to auto_decrypt_code: a raw sentinel, the first line of a raw
\* two-line command, the v1 ciphertexts of BEEFC0DF B16B00B5 and of an
\* ordinary code, and the v7 ciphertext of BEEFC0DE 00000000.
AutoInputs ==
    { Code(BEEFCODE, Zero32),
      Code(U32(\h4000, 0), U32(0, 1)),
      Code(U32(\hb432, \h6fa9), U32(\h1f0a, \hfa2c)),
      Code(U32(\h2a97, \h3dbd), Zero32),
      Code(U32(\h8787, \hc575), U32(\h1ac4, \hc1b4)) }

\* A processor is used until a call on it panics.
Usable == calls < MaxCalls /\ last.ok

\* The step that makes one call, with result r, on cb.
Step(op, code, r) ==
    /\ cb' = r.cb
    /\ last' = Call(op, cb, code, r)
    /\ calls' = calls + 1
    /\ UNCHANGED <<peer, engine, peerLast, pending>>

Init ==
    /\ cb \in {CodebreakerNew, CodebreakerNewV7}
    /\ peer = CodebreakerNew
    /\ engine = Cb7New
    /\ last = NoCall
    /\ peerLast = NoCall
    /\ calls = 0
    /\ pending = 0

Encrypt ==
    /\ Usable
    /\ \E code \in EncInputs : \E r \in {encrypt_code_mut(cb, code)} :
          Step("encrypt", code, r)

Decrypt ==
    /\ Usable
    /\ \E code \in DecInputs : \E r \in {decrypt_code_mut(cb, code)} :
          Step("decrypt", code, r)

AutoDecrypt ==
    /\ Usable
    /\ \E code \in AutoInputs : \E r \in {auto_decrypt_code_mut(cb, code)} :
          Step("auto", code, r)

Next == Encrypt \/ Decrypt \/ AutoDecrypt

Spec == Init /\ [][Next]_vars

----------------------------------------------------------------------------
(* Properties of the stream processor under arbitrary calls                *)

\* The call made beefcode(code.addr, code.val) on the v7 engine.
Rekeyed(call, code) ==
    \E k \in 1..Len(call.rekeys) : call.rekeys[k] = <<code.addr, code.val>>

\* C3: after an encrypt_code call that returned and whose input address is a
\* sentinel, and after a decrypt_code call that returned and whose output
\* address is a sentinel, the call has rekeyed the v7 engine with that
\* address and its value, and the scheme is V7.
C3_SentinelTransition ==
    /\ (last.op = "encrypt" /\ last.ok /\ is_beefcode(last.in.addr))
          => (Rekeyed(last, last.in) /\ cb.scheme = "V7")
    /\ (last.op = "decrypt" /\ last.ok /\ is_beefcode(last.out.addr))
          => (Rekeyed(last, last.out) /\ cb.scheme = "V7")

\* A decrypt_code call on a V7 processor whose beefcodf flag was set has
\* returned a sentinel.
C3_Witness ==
    /\ last.op = "decrypt" /\ last.ok /\ is_beefcode(last.out.addr)
    /\ last.before.scheme = "V7" /\ last.before.cb7.beefcodf

\* C4: no call aborts: every call returns, every rekey it makes is with a
\* sentinel address, and code_lines stays at or above 0.
C4_NeverRejects ==
    /\ last.ok
    /\ \A k \in 1..Len(last.rekeys) : is_beefcode(last.rekeys[k][1])
    /\ cb.code_lines >= 0

\* C9 as stated: after an auto_decrypt_code call that returned a code with a
\* sentinel address, the call has rekeyed the v7 engine with the returned
\* code and the scheme is V7.
C9_AutoSentinelRekeys ==
    (last.op = "auto" /\ last.ok /\ is_beefcode(last.out.addr))
       => (Rekeyed(last, last.out) /\ cb.scheme = "V7")

\* The last call was given an unencrypted sentinel line that a processor not
\* in V7 passes through: the first line of a command, or a continuation line
\* of a raw command.
RawSentinelLine ==
    /\ last.before.scheme /= "V7"
    /\ is_beefcode(last.in.addr)
    /\ (last.before.code_lines = 0 \/ last.before.scheme = "RAW")

\* C9, amended: after an auto_decrypt_code call that returned a code with a
\* sentinel address, either the call obtained the code by decrypting, has
\* rekeyed the v7 engine with it and the scheme is V7, or the code is an
\* unencrypted sentinel line given to a processor not in V7, which is
\* returned as it is with no rekey and the scheme and engine left alone.
C9_AutoSentinelAmended ==
    (last.op = "auto" /\ last.ok /\ is_beefcode(last.out.addr))
       => IF RawSentinelLine
          THEN /\ last.out = last.in
               /\ last.rekeys = <<>>
               /\ cb.scheme = last.before.scheme
               /\ cb.cb7 = last.before.cb7
          ELSE Rekeyed(last, last.out) /\ cb.scheme = "V7"

\* An auto_decrypt_code call on a processor not in V7 has decrypted its
\* input to a sentinel.
C9_Witness ==
    /\ last.op = "auto" /\ last.ok /\ is_beefcode(last.out.addr)
    /\ last.before.scheme /= "V7" /\ last.out /= last.in

\* C29: a processor whose scheme was V7 before a call of encrypt_code,
\* decrypt_code or auto_decrypt_code is in V7 after it.
C29_V7Absorbing ==
    (last.op \in {"encrypt", "decrypt", "auto"} /\ last.before.scheme = "V7")
       => cb.scheme = "V7"

\* auto_decrypt_code has returned the first line of a command with a plain
\* header on a processor that was in V7.
C29_Witness ==
    /\ last.op = "auto" /\ last.ok
    /\ last.before.scheme = "V7" /\ last.before.code_lines = 0
    /\ And32(Shr32(last.in.addr, 24), U32(0, \h0e)) = Zero32
    /\ cb.scheme = "V7"

\* C30: the scheme of a processor is V7 exactly when its v7 engine is
\* initialized; a call that uses the engine to transform a code finds it
\* initialized; and an engine that was initialized before a call is
\* initialized after it.
C30_V7IffInitialized ==
    /\ cb.scheme = "V7" <=> cb.cb7.initialized
    /\ (last.op \in {"encrypt", "decrypt", "auto"} /\ last.before.scheme = "V7")
          => last.before.cb7.initialized
    /\ last.before.cb7.initialized => cb.cb7.initialized

\* A processor built by Codebreaker::new has met a sentinel and then
\* transformed a code with the engine the sentinel keyed.
C30_Witness ==
    /\ last.op \in {"encrypt", "decrypt"} /\ last.ok
    /\ last.before.scheme = "V7" /\ last.before.cb7 /= Cb7Default
    /\ ~is_beefcode(last.in.addr) /\ ~is_beefcode(last.out.addr)
    /\ cb.cb7.initialized

\* C31: code_lines is 0 or 1 after every auto_decrypt_code call, which
\* never takes it below 0; encrypt_code and decrypt_code leave it as it
\* was; and it is 1 after an auto_decrypt_code call that rekeyed the engine.
C31_CodeLinesBounded ==
    /\ cb.code_lines \in {0, 1}
    /\ last.op \in {"encrypt", "decrypt"} => cb.code_lines = last.before.code_lines
    /\ (last.op = "auto" /\ last.ok /\ last.rekeys /= <<>>) => cb.code_lines = 1

\* encrypt_code has returned on a processor that is owed the second line of
\* a two-line command.
C31_Witness ==
    /\ last.op = "encrypt" /\ last.ok
    /\ last.before.code_lines = 1 /\ cb.code_lines = 1

\* The code of the last call before its encryption or after its decryption.
Plaintext == IF last.op = "encrypt" THEN last.in ELSE last.out

\* The last call returned and the code it encrypted, or decrypted to, has a
\* sentinel address.
SentinelProcessed ==
    /\ last.op \in {"encrypt", "decrypt", "auto"} /\ last.ok
    /\ is_beefcode(Plaintext.addr)

\* C32 as stated: a call on a sentinel rekeys twice with that code when the
\* scheme was V7 and beefcodf clear, and once when the scheme was Raw or V1.
C32_SentinelRekeyCount ==
    SentinelProcessed
       => IF last.before.scheme = "V7"
          THEN ~last.before.cb7.beefcodf
                  => last.rekeys = << <<Plaintext.addr, Plaintext.val>>,
                                      <<Plaintext.addr, Plaintext.val>> >>
          ELSE last.rekeys = << <<Plaintext.addr, Plaintext.val>> >>

\* C32, amended: as stated, except that auto_decrypt_code on an unencrypted
\* sentinel line that a processor in Raw or V1 passes through makes no
\* rekey.
C32_SentinelRekeyCountAmended ==
    SentinelProcessed
       => IF last.before.scheme = "V7"
          THEN ~last.before.cb7.beefcodf
                  => last.rekeys = << <<Plaintext.addr, Plaintext.val>>,
                                      <<Plaintext.addr, Plaintext.val>> >>
          ELSE IF last.op = "auto" /\ RawSentinelLine
          THEN last.rekeys = <<>>
          ELSE last.rekeys = << <<Plaintext.addr, Plaintext.val>> >>

\* auto_decrypt_code on a processor in V7 with beefcodf clear has decrypted
\* a line to a sentinel and rekeyed twice.
C32_Witness ==
    /\ SentinelProcessed /\ last.op = "auto"
    /\ last.before.scheme = "V7" /\ ~last.before.cb7.beefcodf
    /\ Len(last.rekeys) = 2

----------------------------------------------------------------------------
(* Round trip: a list is encrypted by one processor and the result is      *)
(* decrypted by another of the same constructor.  The two processors share *)
(* nothing, so decrypting each code as soon as it is encrypted gives what  *)
(* decrypting the whole encrypted list afterwards gives.                   *)

\* Length of the list.
MaxList == 3

\* The codes of the list: both sentinels and three ordinary codes.
RoundTripCodes ==
    { Code(U32(\hbeef, \hc0df), U32(0, 1)),
      Code(BEEFCODE, Zero32),
      Code(U32(\h2096, \hf5b8), U32(0, \h00be)),
      Code(U32(\h9029, \hbeac), U32(\h0c0a, \h9225)),
      Code(U32(\h201f, \h6024), Zero32) }

InitRoundTrip ==
    /\ cb \in {CodebreakerNew, CodebreakerNewV7}
    /\ peer = cb
    /\ engine = Cb7New
    /\ last = NoCall
    /\ peerLast = NoCall
    /\ calls = 0
    /\ pending = 0

\* cb encrypts the next code of the list and peer decrypts the result.
EncryptThenDecrypt ==
    /\ calls < MaxList /\ last.ok /\ peerLast.ok
    /\ \E code \in RoundTripCodes : \E r \in {encrypt_code_mut(cb, code)} :
          /\ cb' = r.cb
          /\ last' = Call("encrypt", cb, code, r)
          /\ IF r.ok
             THEN \E d \in {decrypt_code_mut(peer, r.code)} :
                     /\ peer' = d.cb
                     /\ peerLast' = Call("decrypt", peer, r.code, d)
             ELSE UNCHANGED <<peer, peerLast>>
    /\ calls' = calls + 1
    /\ UNCHANGED <<engine, pending>>

NextRoundTrip == EncryptThenDecrypt

SpecRoundTrip == InitRoundTrip /\ [][NextRoundTrip]_vars

\* C1: every code of the list comes back: the encrypting call returns, the
\* decrypting call on its result returns, and what it returns is the code
\* that was encrypted.
C1_RoundTrip ==
    last.op = "encrypt"
       => /\ last.ok
          /\ peerLast.ok
          /\ peerLast.in = last.out
          /\ peerLast.out = last.in

----------------------------------------------------------------------------
(* The v1 codec as a pair of pure functions                                *)

\* Inputs of the v1 codec: every command nibble, with address and value
\* bytes that make the additions and subtractions of the codec wrap, and the
\* plaintexts of the tests of cb1.rs.
Cb1Inputs ==
    { Code(U32(n * 4096 + hl[1], hl[2]), v) :
        n \in 0..15,
        hl \in { <<0, 0>>, <<\h0fff, \hffff>>, <<\h0043, \hafcc>> },
        v \in { Zero32, U32(\hffff, \hffff), U32(\h2411, \h89ab) } }
    \cup { Code(U32(\h0031, \h789a), U32(0, \h0063)),
           Code(U32(\h1031, \ha028), U32(0, \hffff)),
           Code(U32(\h201f, \h6024), Zero32),
           Code(U32(\h902d, \hb32c), U32(\h0c0b, \haff1)),
           Code(U32(\ha008, \h060c), U32(\h0802, \h8007)),
           Code(BEEFCODE, Zero32) }

\* An input on which no function has been applied yet.
Input(code) ==
    [op |-> "input", in |-> code, out |-> code, ok |-> TRUE, rekeys |-> <<>>,
     before |-> CodebreakerNew]

\* The application of a pure function to code, with result out.
Applied(op, code, out) ==
    [op |-> op, in |-> code, out |-> out, ok |-> TRUE, rekeys |-> <<>>,
     before |-> CodebreakerNew]

InitCb1 ==
    /\ cb = CodebreakerNew
    /\ peer = CodebreakerNew
    /\ engine = Cb7New
    /\ last \in {Input(code) : code \in Cb1Inputs}
    /\ peerLast = NoCall
    /\ calls = 0
    /\ pending = 0

\* cb1::decrypt_code(cb1::encrypt_code(a, v))
Cb1EncryptDecrypt ==
    /\ last.op = "input"
    /\ \E mid \in {cb1_encrypt_code(last.in)} :
          /\ last' = Applied("cb1_encrypt", last.in, mid)
          /\ peerLast' = Applied("cb1_decrypt", mid, cb1_decrypt_code(mid))
    /\ calls' = calls + 1
    /\ UNCHANGED <<cb, peer, engine, pending>>

\* cb1::encrypt_code(cb1::decrypt_code(a, v))
Cb1DecryptEncrypt ==
    /\ last.op = "input"
    /\ \E mid \in {cb1_decrypt_code(last.in)} :
          /\ last' = Applied("cb1_decrypt", last.in, mid)
          /\ peerLast' = Applied("cb1_encrypt", mid, cb1_encrypt_code(mid))
    /\ calls' = calls + 1
    /\ UNCHANGED <<cb, peer, engine, pending>>

NextCb1 == Cb1EncryptDecrypt \/ Cb1DecryptEncrypt

SpecCb1 == InitCb1 /\ [][NextCb1]_vars

\* C2: decrypting what encrypt_code returned, and encrypting what
\* decrypt_code returned, gives the pair the first function was given.
C2_Cb1Inverse ==
    last.op \in {"cb1_encrypt", "cb1_decrypt"}
       => /\ peerLast.op \in {"cb1_encrypt", "cb1_decrypt"} \ {last.op}
          /\ peerLast.in = last.out
          /\ peerLast.out = last.in

\* A code of a command above 2 has been encrypted, address and value both
\* changed, and decrypted again.
C2_Witness ==
    /\ last.op = "cb1_encrypt" /\ peerLast.op = "cb1_decrypt"
    /\ Small(Shr32(last.in.addr, 28)) > 2
    /\ last.out.addr /= last.in.addr /\ last.out.val /= last.in.val

\* The spec's formula for v1 encryption, computed on the 16-bit halves of
\* the words: cmd = addr >> 28, mid = ((addr & 0xFF) << 16) | ((addr >> 8)
\* & 0xFFFF), addr' = ((addr & 0xFF000000) | ((mid + S1[cmd]) & 0x00FFFFFF))
\* XOR S0[cmd], val' = addr' XOR (val + S2[cmd]) when cmd > 2, else val.
Cb1EncryptFormula(code) ==
    LET ah   == Hi16(code.addr)
        al   == Lo16(code.addr)
        cmd  == ah \div 4096
        top  == ah - (ah % 256)
        lo   == (al \div 256) + 256 * (ah % 256) + Lo16(Cb1Seeds1[cmd + 1])
        hi   == (al % 256) + Hi16(Cb1Seeds1[cmd + 1]) + (lo \div 65536)
        nh   == XorBits(top + (hi % 256), Hi16(Cb1Seeds0[cmd + 1]), 16)
        nl   == XorBits(lo % 65536, Lo16(Cb1Seeds0[cmd + 1]), 16)
        vl   == Lo16(code.val) + Lo16(Cb1Seeds2[cmd + 1])
        vh   == Hi16(code.val) + Hi16(Cb1Seeds2[cmd + 1]) + (vl \div 65536)
    IN Code(U32(nh, nl),
            IF cmd > 2 THEN U32(XorBits(nh, vh % 65536, 16), XorBits(nl, vl % 65536, 16))
            ELSE code.val)

\* C13: cb1::encrypt_code returns what the formula gives, whether it is
\* applied to an input or to what cb1::decrypt_code returned.
C13_Cb1EncryptFormula ==
    /\ last.op = "cb1_encrypt" => last.out = Cb1EncryptFormula(last.in)
    /\ peerLast.op = "cb1_encrypt" => peerLast.out = Cb1EncryptFormula(peerLast.in)

\* cb1::encrypt_code has turned BEEFC0DE 00000000 into B4336FA9 4DFEFB79,
\* as tests::test_encrypt_code expects.
C13_Witness ==
    /\ last.op = "cb1_encrypt"
    /\ last.in = Code(BEEFCODE, Zero32)
    /\ last.out = Code(U32(\hb433, \h6fa9), U32(\h4dfe, \hfb79))

\* The command nibble of a code.
Cmd(code) == code.addr[4] \div 16

\* What C14 says of one application of a v1 function.
Cb1ValFrame(call) ==
    /\ (call.op \in {"cb1_encrypt", "cb1_decrypt"} /\ Cmd(call.in) <= 2)
          => call.out.val = call.in.val
    /\ (call.op = "cb1_encrypt" /\ Cmd(call.in) > 2)
          => call.out.val = Xor32(call.out.addr,
                                  Add32(call.in.val, Cb1Seeds2[Cmd(call.in) + 1]))
    /\ (call.op = "cb1_decrypt" /\ Cmd(call.in) > 2)
          => call.out.val = Sub32(Xor32(call.in.addr, call.in.val),
                                  Cb1Seeds2[Cmd(call.in) + 1])

\* C14: for commands 0, 1 and 2 both v1 functions return val as it was; for
\* commands 3 to 15 val is combined with the third seed table and the
\* encrypted address.
C14_Cb1ValFrame == Cb1ValFrame(last) /\ Cb1ValFrame(peerLast)

\* cb1::decrypt_code has changed the address of a command 2 code and left
\* its value, which is not 0, as it was.
C14_Witness ==
    /\ last.op = "cb1_decrypt" /\ Cmd(last.in) = 2
    /\ last.out.addr /= last.in.addr
    /\ last.in.val /= Zero32 /\ last.out.val = last.in.val

\* The top byte of the address call returned is the top byte of the address
\* it was given XORed with 0A, and the command nibble is the same.
TopByteXor0A(call) ==
    /\ call.out.addr[4] = Xor8(call.in.addr[4], \h0a)
    /\ call.out.addr[4] \div 16 = call.in.addr[4] \div 16

\* C34: cb1::encrypt_code and cb1::decrypt_code keep the command nibble and
\* XOR the top byte of the address with 0A; the ciphertext of a code with
\* (addr >> 24) & 0x0E = 0 has (addr >> 24) & 0x0E = 0x0A, has no sentinel
\* address, and puts a new processor that auto_decrypt_code is called on
\* with it into V1.
C34_Cb1TopByte ==
    /\ last.op \in {"cb1_encrypt", "cb1_decrypt"}
          => (TopByteXor0A(last) /\ TopByteXor0A(peerLast))
    /\ (last.op = "cb1_encrypt" /\ And8(last.in.addr[4], \h0e) = 0)
          => /\ And8(last.out.addr[4], \h0e) = \h0a
             /\ ~is_beefcode(last.out.addr)
             /\ auto_decrypt_code_mut(CodebreakerNew, last.out).cb.scheme = "V1"

\* cb1::encrypt_code has encrypted a code at 2043AFCC to an address that
\* starts with 2A, and cb1::decrypt_code has returned the code.
C34_Witness ==
    /\ last.op = "cb1_encrypt" /\ last.in.addr = U32(\h2043, \hafcc)
    /\ last.out.addr[4] = \h2a
    /\ peerLast.out = last.in

----------------------------------------------------------------------------
(* new() brought to V7 by BEEFC0DE 00000000, next to new_v7()              *)

\* Number of calls made on both processors after the preloading call.
MaxPreload == 3

\* Codes both processors encrypt: three sentinels and an ordinary code.
PreloadEncInputs ==
    { Code(BEEFCODE, Zero32),
      Code(U32(\hbeef, \hc0df), U32(\hb16b, \h00b5)),
      Code(BEEFCODE, U32(\h89ab, \hcdef)),
      Code(U32(\h2096, \hf5b8), U32(0, \h00be)) }

\* Codes both processors decrypt: the v7 ciphertexts under the preloaded key
\* of BEEFC0DE 00000000, BEEFC0DF B16B00B5 and 2096F5B8 000000BE, and a code
\* whose decryption under that key stops in the RSA stage.
PreloadDecInputs ==
    { Code(U32(\h8787, \hc575), U32(\h1ac4, \hc1b4)),
      Code(U32(\hfe8b, \h8601), U32(\hc7c6, \hf6ce)),
      Code(U32(\h973e, \h0b2a), U32(\ha7d4, \haf10)),
      Code(U32(\h05eb, \hd278), U32(\h3076, \h3c10)) }

InitPreload ==
    /\ cb = CodebreakerNew
    /\ peer = CodebreakerNewV7
    /\ engine = Cb7New
    /\ last = NoCall
    /\ peerLast = NoCall
    /\ calls = 0
    /\ pending = 0

\* cb encrypts BEEFC0DE 00000000.
PreloadByEncrypt ==
    /\ last.op = "none"
    /\ \E r \in {encrypt_code_mut(cb, Code(BEEFCODE, Zero32))} :
          /\ cb' = r.cb
          /\ last' = Call("preload", cb, Code(BEEFCODE, Zero32), r)
    /\ UNCHANGED <<peer, engine, peerLast, calls, pending>>

\* cb decrypts B4336FA9 4DFEFB79, the v1 ciphertext of BEEFC0DE 00000000.
PreloadByDecrypt ==
    /\ last.op = "none"
    /\ \E r \in {decrypt_code_mut(cb, Code(U32(\hb433, \h6fa9), U32(\h4dfe, \hfb79)))} :
          /\ cb' = r.cb
          /\ last' = Call("preload", cb, Code(U32(\hb433, \h6fa9), U32(\h4dfe, \hfb79)), r)
    /\ UNCHANGED <<peer, engine, peerLast, calls, pending>>

\* Both processors are still in use.
BothUsable == last.op /= "none" /\ calls < MaxPreload /\ last.ok /\ peerLast.ok

\* The step in which cb makes a call with result r and peer one with result q.
BothStep(op, peerOp, code, r, q) ==
    /\ cb' = r.cb
    /\ last' = Call(op, cb, code, r)
    /\ peer' = q.cb
    /\ peerLast' = Call(peerOp, peer, code, q)
    /\ calls' = calls + 1
    /\ UNCHANGED <<engine, pending>>

BothEncrypt ==
    /\ BothUsable
    /\ \E code \in PreloadEncInputs :
          \E r \in {encrypt_code_mut(cb, code)} : \E q \in {encrypt_code_mut(peer, code)} :
             BothStep("encrypt", "encrypt", code, r, q)

BothDecrypt ==
    /\ BothUsable
    /\ \E code \in PreloadDecInputs :
          \E r \in {decrypt_code_mut(cb, code)} : \E q \in {decrypt_code_mut(peer, code)} :
             BothStep("decrypt", "decrypt", code, r, q)

NextPreload == PreloadByEncrypt \/ PreloadByDecrypt \/ BothEncrypt \/ BothDecrypt

SpecPreload == InitPreload /\ [][NextPreload]_vars

\* C5: once new() has encrypted BEEFC0DE 00000000 or decrypted its v1
\* ciphertext it is the processor new_v7() builds, and it stays equal to
\* it, with equal results, under the same encrypt_code and decrypt_code calls.
C5_PreloadEquivalence ==
    last.op /= "none"
       => /\ cb = peer
          /\ last.op \in {"encrypt", "decrypt"}
                => (last.ok = peerLast.ok /\ last.out = peerLast.out)

\* Both processors have been rekeyed after the preloading call and have
\* since decrypted a code.
C5_Witness ==
    /\ last.op = "decrypt" /\ last.ok /\ calls = MaxPreload
    /\ last.before.cb7 /= Cb7Default
    /\ last.out /= last.in

----------------------------------------------------------------------------
(* auto_decrypt_code on unencrypted lines                                  *)

\* Number of lines fed to auto_decrypt_code.
MaxLines == 3

\* Lines whose address has (addr >> 24) & 0x0E == 0, none a sentinel: every
\* command nibble, with bit 0x00400000 of the address set and clear.
RawLines ==
    { Code(U32(n * 4096 + b * 256 + t, \h0010), U32(0, \h0011)) :
        n \in 0..15, b \in 0..1, t \in {0, \h40} }

InitAutoRaw ==
    /\ cb = CodebreakerNew
    /\ peer = CodebreakerNew
    /\ engine = Cb7New
    /\ last = NoCall
    /\ peerLast = NoCall
    /\ calls = 0
    /\ pending = 0

\* The next line of the list goes through auto_decrypt_code.
AutoRawLine ==
    /\ calls < MaxLines /\ last.ok
    /\ \E code \in RawLines : \E r \in {auto_decrypt_code_mut(cb, code)} :
          Step("auto", code, r)

NextAutoRaw == AutoRawLine

SpecAutoRaw == InitAutoRaw /\ [][NextAutoRaw]_vars

\* C6: every line comes back as it was given, the scheme is never V1 or V7,
\* and the v7 engine is the one new() built.
C6_RawPassThrough ==
    last.op = "auto"
       => /\ last.ok
          /\ last.out = last.in
          /\ last.rekeys = <<>>
          /\ cb.scheme = "RAW"
          /\ cb.cb7 = Cb7New

\* A line has been taken as the continuation line of a two-line command.
C6_Witness ==
    /\ last.op = "auto" /\ last.ok
    /\ last.before.code_lines = 1
    /\ cb.code_lines = 0

----------------------------------------------------------------------------
(* auto_decrypt_code on v1-encrypted commands                              *)

\* First lines of plaintext commands: (addr >> 24) & 0x0E == 0, none a
\* sentinel, every command nibble, bit 0x00400000 set and clear.
FirstLines ==
    { Code(U32(n * 4096 + b * 256 + t, \h0010), U32(0, \h0011)) :
        n \in 0..15, b \in 0..1, t \in {0, \h40} }

\* Continuation lines of plaintext commands.
ContinuationLines ==
    { Code(U32(\h0a00, \h0010), U32(0, \h0022)),
      Code(Zero32, Zero32),
      Code(U32(\h4000, \h0000), U32(\hffff, \hffff)) }

InitAutoV1 ==
    /\ cb = CodebreakerNew
    /\ peer = CodebreakerNew
    /\ engine = Cb7New
    /\ last = NoCall
    /\ peerLast = NoCall
    /\ calls = 0
    /\ pending = 0

\* The next plaintext line, of a command that has as many lines as
\* num_code_lines gives for its first address, is encrypted with cb1 and
\* the result goes through auto_decrypt_code.
AutoV1Line ==
    /\ calls < MaxLines /\ last.ok
    /\ \E plain \in (IF pending = 0 THEN FirstLines ELSE ContinuationLines) :
          \E code \in {cb1_encrypt_code(plain)} :
             \E r \in {auto_decrypt_code_mut(cb, code)} :
                /\ cb' = r.cb
                /\ last' = Call("auto", cb, code, r)
                /\ peerLast' = Applied("cb1_encrypt", plain, code)
                /\ pending' = IF pending = 0 THEN num_code_lines(plain.addr) - 1
                              ELSE pending - 1
    /\ calls' = calls + 1
    /\ UNCHANGED <<peer, engine>>

NextAutoV1 == AutoV1Line

SpecAutoV1 == InitAutoV1 /\ [][NextAutoV1]_vars

\* C7: auto_decrypt_code returns every plaintext line of the list.
C7_AutoV1RoundTrip ==
    last.op = "auto"
       => /\ last.ok
          /\ peerLast.out = last.in
          /\ last.out = peerLast.in

----------------------------------------------------------------------------
(* auto_decrypt_code next to decrypt_code on a sequence that starts with   *)
(* the v1 ciphertext of a sentinel                                         *)

\* Number of codes that follow the first.
MaxFollow == 2

\* First codes: the v1 ciphertexts of both sentinels, with three values.
SentinelCiphertexts ==
    { cb1_encrypt_code(Code(a, v)) :
        a \in {BEEFCODE, U32(\hbeef, \hc0df)},
        v \in {Zero32, U32(\hb16b, \h00b5), U32(0, 1)} }

\* Codes that follow: under the preloaded key the v7 ciphertexts of BEEFC0DE
\* 00000000, 2096F5B8 000000BE and FFFFFFFF 00010000; after BEEFC0DF
\* B16B00B5 the v7 ciphertext of 01234567 89ABCDEF; and a code whose
\* decryption under the preloaded key stops in the RSA stage.
FollowCodes ==
    { Code(U32(\h8787, \hc575), U32(\h1ac4, \hc1b4)),
      Code(U32(\h973e, \h0b2a), U32(\ha7d4, \haf10)),
      Code(U32(\h244c, \ha2b3), U32(\h116a, \hfbb4)),
      Code(U32(\h8623, \h16ab), U32(\hc59c, \h5fb1)),
      Code(U32(\h05eb, \hd278), U32(\h3076, \h3c10)) }

InitAutoSentinel ==
    /\ cb = CodebreakerNew
    /\ peer = CodebreakerNew
    /\ engine = Cb7New
    /\ last = NoCall
    /\ peerLast = NoCall
    /\ calls = 0
    /\ pending = 0

\* cb takes the next code through auto_decrypt_code, peer through
\* decrypt_code.
AutoAndDecrypt(codes) ==
    \E code \in codes :
       \E r \in {auto_decrypt_code_mut(cb, code)} : \E q \in {decrypt_code_mut(peer, code)} :
          BothStep("auto", "decrypt", code, r, q)

FirstSentinel ==
    /\ calls = 0
    /\ AutoAndDecrypt(SentinelCiphertexts)

FollowUp ==
    /\ 0 < calls /\ calls <= MaxFollow /\ last.ok /\ peerLast.ok
    /\ AutoAndDecrypt(FollowCodes)

NextAutoSentinel == FirstSentinel \/ FollowUp

SpecAutoSentinel == InitAutoSentinel /\ [][NextAutoSentinel]_vars

\* C8: auto_decrypt_code and decrypt_code return the same for every code of
\* the sequence, and the two processors have the same scheme and the same v7
\* engine after each.
C8_AutoMatchesDecrypt ==
    last.op = "auto"
       => /\ last.ok = peerLast.ok
          /\ last.out = peerLast.out
          /\ cb.scheme = peer.scheme
          /\ cb.cb7 = peer.cb7

\* Both processors are in V7 and have decrypted a further code to a
\* sentinel, and their code_lines differ.
C8_Witness ==
    /\ last.op = "auto" /\ last.ok /\ last.before.scheme = "V7"
    /\ is_beefcode(last.out.addr)
    /\ cb.code_lines /= peer.code_lines

----------------------------------------------------------------------------
(* The v7 engine driven directly                                           *)

\* Number of calls made on the engine.
MaxEngineCalls == 2

\* Addresses passed to Cb7::beefcode: the two sentinels and addresses that
\* differ from BEEFC0DE in one bit or in many.
BeefcodeAddrs ==
    { BEEFCODE, U32(\hbeef, \hc0df),
      U32(\hbeef, \hc0dc), U32(\hbeef, \hc0dd), U32(\hbeef, \hc0da), U32(\hbeef, \hc0ce),
      U32(\hbeef, \hc1de), U32(\hbeef, \h40de), U32(\hbeee, \hc0de), U32(\h3eef, \hc0de),
      U32(\hbeef, \hc0e0), Zero32, U32(\hffff, \hffff) }

\* Values passed to Cb7::beefcode.
BeefcodeVals == { Zero32, U32(\hb16b, \h00b5) }

\* Codes passed to Cb7::encrypt_code and Cb7::decrypt_code.
EngineCodes ==
    { Code(U32(\h2043, \hafcc), U32(\h2411, \hffff)),
      Code(U32(\h3979, \h51b0), U32(\h4156, \h9fe0)) }

InitCb7 ==
    /\ cb = CodebreakerNew
    /\ peer = CodebreakerNew
    /\ engine \in {Cb7New, Cb7Default}
    /\ last = [NoCall EXCEPT !.before = Cb7New]
    /\ peerLast = NoCall
    /\ calls = 0
    /\ pending = 0

\* An engine is used until a call on it panics.
EngineUsable == calls < MaxEngineCalls /\ last.ok

\* The step that makes one call, with result r, on engine.
EngineStep(op, code, r) ==
    /\ engine' = r.cb7
    /\ last' = [op |-> op, in |-> code, out |-> r.code, ok |-> r.ok, rekeys |-> r.rekeys,
                before |-> engine]
    /\ calls' = calls + 1
    /\ UNCHANGED <<cb, peer, peerLast, pending>>

Cb7Beefcode ==
    /\ EngineUsable
    /\ \E addr \in BeefcodeAddrs : \E val \in BeefcodeVals :
          \E r \in {beefcode(engine, addr, val)} :
             EngineStep("beefcode", Code(addr, val),
                        [ok |-> r.ok, cb7 |-> r.cb7, code |-> Code(addr, val),
                         rekeys |-> IF r.ok THEN << <<addr, val>> >> ELSE <<>>])

Cb7Encrypt ==
    /\ EngineUsable
    /\ \E code \in EngineCodes : \E r \in {cb7_encrypt_code_mut(engine, code)} :
          EngineStep("encrypt", code, r)

Cb7Decrypt ==
    /\ EngineUsable
    /\ \E code \in EngineCodes : \E r \in {cb7_decrypt_code_mut(engine, code)} :
          EngineStep("decrypt", code, r)

NextCb7 == Cb7Beefcode \/ Cb7Encrypt \/ Cb7Decrypt

SpecCb7 == InitCb7 /\ [][NextCb7]_vars

\* C10: Cb7::beefcode returns exactly when the address is BEEFC0DE or
\* BEEFC0DF, which are the addresses is_beefcode holds for; with any other
\* address it panics and seeds, key, beefcodf and initialized are as before.
C10_BeefcodeGuard ==
    last.op = "beefcode"
       => /\ is_beefcode(last.in.addr) <=> last.in.addr \in {BEEFCODE, U32(\hbeef, \hc0df)}
          /\ last.ok <=> is_beefcode(last.in.addr)
          /\ ~last.ok => engine = last.before

\* Cb7::beefcode has been called with an address next to the sentinels on an
\* engine that had been rekeyed before.
C10_Witness ==
    /\ last.op = "beefcode" /\ ~last.ok
    /\ last.in.addr = U32(\hbeef, \hc0dc)
    /\ last.before.initialized /\ last.before /= Cb7Default

\* The 1280 keystream bytes of a fresh RC4 keyed by the eight little-endian
\* bytes of [code.addr, code.val].
SeedKeystream(code) ==
    Rc4Crypt(Rc4New(BytesOf(<<code.addr, code.val>>)), [k \in 1..1280 |-> 0]).buf

\* The engine after the last call holds the seeds it held before XORed with
\* the keystream ks, beefcodf clear, and the key and initialized it had.
SeedsXored(ks) ==
    /\ \A row \in 1..5 : \A col \in 1..256 :
          engine.seeds[row][col] =
             Xor8(last.before.seeds[row][col], ks[256 * (row - 1) + col])
    /\ ~engine.beefcodf
    /\ engine.key = last.before.key
    /\ engine.initialized = last.before.initialized

\* Cb7::encrypt_code has returned for a code that is no sentinel, on an
\* engine whose beefcodf flag was set.
EncryptedSecondLine ==
    /\ last.op = "encrypt" /\ last.ok
    /\ last.before.beefcodf /\ ~is_beefcode(last.in.addr)

\* C17 as stated: the seeds are XORed with the keystream of an RC4 keyed by
\* the encrypted code, and beefcodf is cleared.
C17_SeedsKeyedByOutput ==
    EncryptedSecondLine => SeedsXored(SeedKeystream(last.out))

\* C17, amended: the seeds are XORed with the keystream of an RC4 keyed by
\* the code as it was passed in, before encryption, and beefcodf is cleared.
C17_SeedsKeyedByInput ==
    EncryptedSecondLine => SeedsXored(SeedKeystream(last.in))

\* Cb7::encrypt_code has encrypted the line after a BEEFC0DF B16B00B5
\* sentinel and the seeds have changed.
C17_Witness ==
    /\ EncryptedSecondLine
    /\ last.before.initialized
    /\ engine.seeds /= last.before.seeds
    /\ last.out /= last.in

----------------------------------------------------------------------------
(* The RC4 cipher driven directly                                          *)

\* Number of Rc4::crypt calls made on one instance.
MaxChunks == 2

\* The bytes of "Key", "Wiki" and "Secret" (the keys of tests::test_crypt).
KeyKey == <<75, 101, 121>>

KeyWiki == <<87, 105, 107, 105>>

KeySecret == <<83, 101, 99, 114, 101, 116>>

\* Keys passed to Rc4::new: no bytes, one byte, the test keys, the 8 bytes
\* of a code, the 20 bytes of RC4_KEY, and keys of 256 and of 257 bytes.
Rc4Keys ==
    { <<>>, <<0>>, KeyKey, KeyWiki, KeySecret,
      BytesOf(<<U32(\h9029, \hbeac), U32(\h0c0a, \h9225)>>),
      BytesOf(RC4_KEY),
      [k \in 1..256 |-> (7 * k) % 256],
      [k \in 1..257 |-> (11 * k) % 256] }

\* Buffers passed to Rc4::crypt: "Plaintext", its two parts "Plain" and
\* "text", "pedia", and the empty buffer.
Rc4Buffers ==
    { <<80, 108, 97, 105, 110, 116, 101, 120, 116>>,
      <<80, 108, 97, 105, 110>>,
      <<116, 101, 120, 116>>,
      <<112, 101, 100, 105, 97>>,
      <<>> }

\* No Rc4 built yet.
NoRc4 == [ok |-> FALSE, i |-> 0, j |-> 0, state |-> <<>>]

\* What a step records of a call on the Rc4 instance: the key it was built
\* from, the buffer passed and the buffer as the call left it, the instance
\* before the call, and all bytes passed to and left by the instance so far.
Rc4Call(op, key, before, in, out, allIn, allOut) ==
    [op |-> op, key |-> key, in |-> in, out |-> out, ok |-> TRUE,
     before |-> before, allIn |-> allIn, allOut |-> allOut]

InitRc4 ==
    /\ cb = CodebreakerNew
    /\ peer = CodebreakerNew
    /\ engine = NoRc4
    /\ last \in {Rc4Call("key", key, NoRc4, <<>>, <<>>, <<>>, <<>>) : key \in Rc4Keys}
    /\ peerLast = NoCall
    /\ calls = 0
    /\ pending = 0

\* let mut rc4 = Rc4::new(key)
Rc4NewCall ==
    /\ last.op = "key"
    /\ \E r \in {Rc4New(last.key)} :
          /\ engine' = r
          /\ last' = [Rc4Call("rc4_new", last.key, NoRc4, <<>>, <<>>, <<>>, <<>>)
                         EXCEPT !.ok = r.ok]
    /\ UNCHANGED <<cb, peer, peerLast, calls, pending>>

\* rc4.crypt(&mut buf), and next to it what fresh instances of the same key
\* make of the bytes seen so far: of all output bytes, of all input bytes,
\* and of as many zero bytes.
Rc4CryptCall ==
    /\ engine.ok
    /\ calls < MaxChunks
    /\ \E buf \in Rc4Buffers : \E r \in {Rc4Crypt(engine, buf)} :
          /\ engine' = r.rc4
          /\ last' = Rc4Call("rc4_crypt", last.key, engine, buf, r.buf,
                             last.allIn \o buf, last.allOut \o r.buf)
          /\ peerLast' =
                [op |-> "rc4_fresh", key |-> last.key,
                 back |-> Rc4Crypt(Rc4New(last.key), last.allOut \o r.buf).buf,
                 whole |-> Rc4Crypt(Rc4New(last.key), last.allIn \o buf).buf,
                 keystream |-> Rc4Crypt(Rc4New(last.key),
                                        [k \in 1..Len(last.allIn \o buf) |-> 0]).buf]
    /\ calls' = calls + 1
    /\ UNCHANGED <<cb, peer, pending>>

NextRc4 == Rc4NewCall \/ Rc4CryptCall

SpecRc4 == InitRc4 /\ [][NextRc4]_vars

\* C11: Rc4::new returns exactly for keys of 1 to 256 bytes, and the
\* instance it returns holds a permutation of 0..255 with i = 0 and j = 0.
C11_Rc4NewKeyLength ==
    last.op = "rc4_new"
       => /\ last.ok <=> Len(last.key) \in 1..256
          /\ last.ok => /\ engine.i = 0 /\ engine.j = 0
                        /\ Len(engine.state) = 256
                        /\ {engine.state[k] : k \in 1..256} = 0..255
                        /\ engine.state /= [k \in 1..256 |-> k - 1]

\* Rc4::new has built an instance from a key of 256 bytes.
C11_Witness ==
    /\ last.op = "rc4_new" /\ last.ok
    /\ Len(last.key) = 256

\* C12: a fresh instance of the same key turns the output back into the
\* input, and the output is the input XOR a keystream that is the same
\* whatever the bytes are and however they are split over crypt calls.
C12_Rc4SelfInverse ==
    last.op = "rc4_crypt"
       => /\ peerLast.back = last.allIn
          /\ peerLast.whole = last.allOut
          /\ \A k \in 1..Len(last.allIn) :
                last.allOut[k] = Xor8(last.allIn[k], peerLast.keystream[k])

\* "Plaintext" has been encrypted under "Key" in two crypt calls, "Plain"
\* and "text", to the bytes tests::test_crypt expects.
C12_Witness ==
    /\ last.op = "rc4_crypt" /\ last.key = KeyKey
    /\ last.in = <<116, 101, 120, 116>> /\ last.before.i = 5
    /\ last.allOut = <<\hbb, \hf3, \h16, \he8, \hd9, \h40, \haf, \h0a, \hd3>>

----------------------------------------------------------------------------
(* Two processors called in any interleaving                               *)

\* Number of calls made on the two processors together.
MaxInterleaved == 3

\* The calls made on either processor: a BEEFC0DF sentinel is encrypted, or
\* the v1 ciphertext of 201F6024 00000000 is decrypted.
InterleavedCalls ==
    { <<"encrypt", Code(U32(\hbeef, \hc0df), U32(\hb16b, \h00b5))>>,
      <<"decrypt", Code(U32(\h2a97, \h3dbd), Zero32)>> }

\* The method op of Codebreaker called on c with code.
Apply(op, c, code) ==
    IF op = "encrypt" THEN encrypt_code_mut(c, code)
    ELSE IF op = "decrypt" THEN decrypt_code_mut(c, code)
    ELSE auto_decrypt_code_mut(c, code)

\* &mut self with every field shared with another instance, as if the
\* v7 engine were a global.
CalleeSharesEngine(c, other) == [c EXCEPT !.cb7 = other.cb7]

\* &mut self: what a method called on c reads and writes when another
\* instance, other, exists. Codebreaker owns its fields, cb7 included.
Callee(c, other) == c

\* What a step records of a call on one of the two processors: the call,
\* its number among the calls on both, the calls made on this processor so
\* far, and the same calls made on a processor that is alone.
OwnCall(op, before, code, r, seq, hist, alone) ==
    [op |-> op, in |-> code, out |-> r.code, ok |-> r.ok, rekeys |-> r.rekeys,
     before |-> before, seq |-> seq, hist |-> hist,
     alone |-> alone.cb, aloneOut |-> alone.code, aloneOk |-> alone.ok]

\* No call made yet on processor c.
NoOwnCall(c) ==
    [op |-> "none", in |-> Code(Zero32, Zero32), out |-> Code(Zero32, Zero32),
     ok |-> TRUE, rekeys |-> <<>>, before |-> c, seq |-> 0, hist |-> <<>>,
     alone |-> c, aloneOut |-> Code(Zero32, Zero32), aloneOk |-> TRUE]

InitInterleaved ==
    /\ cb \in {CodebreakerNew, CodebreakerNewV7}
    /\ peer \in {CodebreakerNew, CodebreakerNewV7}
    /\ engine = Cb7New
    /\ last = NoOwnCall(cb)
    /\ peerLast = NoOwnCall(peer)
    /\ calls = 0
    /\ pending = 0

\* A call on cb while peer exists.
CallOnCb ==
    /\ calls < MaxInterleaved /\ last.ok
    /\ \E call \in InterleavedCalls :
       \E r \in {Apply(call[1], Callee(cb, peer), call[2])} :
          /\ cb' = r.cb
          /\ last' = OwnCall(call[1], cb, call[2], r, calls + 1, Append(last.hist, call),
                             Apply(call[1], last.alone, call[2]))
    /\ calls' = calls + 1
    /\ UNCHANGED <<peer, engine, peerLast, pending>>

\* A call on peer while cb exists.
CallOnPeer ==
    /\ calls < MaxInterleaved /\ peerLast.ok
    /\ \E call \in InterleavedCalls :
       \E r \in {Apply(call[1], Callee(peer, cb), call[2])} :
          /\ peer' = r.cb
          /\ peerLast' = OwnCall(call[1], peer, call[2], r, calls + 1,
                                 Append(peerLast.hist, call),
                                 Apply(call[1], peerLast.alone, call[2]))
    /\ calls' = calls + 1
    /\ UNCHANGED <<cb, engine, last, pending>>

NextInterleaved == CallOnCb \/ CallOnPeer

SpecInterleaved == InitInterleaved /\ [][NextInterleaved]_vars

----------------------------------------------------------------------------
(* auto_decrypt_code in V7 on lines that decrypt to FFFFFFFF               *)

\* Number of lines given to the processor.
MaxReserved == 3

\* Lines given to auto_decrypt_code. Under the key new_v7() preloads they
\* decrypt to FFFFFFFF 00010000, to the first line 40000000 00000001 of a
\* two-line command, and to the sentinels BEEFC0DF B16B00B5 and BEEFC0DE
\* 00000000; the last two decrypt to FFFFFFFF 00010000 after that BEEFC0DF
\* and after that BEEFC0DE.
ReservedLines ==
    { Code(U32(\h244c, \ha2b3), U32(\h116a, \hfbb4)),
      Code(U32(\h8547, \hfacf), U32(\ha76b, \h3b7e)),
      Code(U32(\hfe8b, \h8601), U32(\hc7c6, \hf6ce)),
      Code(U32(\h8787, \hc575), U32(\h1ac4, \hc1b4)),
      Code(U32(\hadef, \h14a9), U32(\ha3bf, \h9e9d)),
      Code(U32(\h7d85, \h366c), U32(\h26ad, \h842a)) }

InitAutoReserved ==
    /\ cb \in {CodebreakerNewV7, CodebreakerNew}
    /\ peer = CodebreakerNew
    /\ engine = Cb7New
    /\ last = NoCall
    /\ peerLast = NoCall
    /\ calls = 0
    /\ pending = 0

\* auto_decrypt_code on the next line.
AutoReservedLine ==
    /\ calls < MaxReserved /\ last.ok
    /\ \E code \in ReservedLines : \E r \in {auto_decrypt_code_mut(cb, code)} :
          Step("auto", code, r)

NextAutoReserved == AutoReservedLine

SpecAutoReserved == InitAutoReserved /\ [][NextAutoReserved]_vars

\* C16: when a V7 processor's auto_decrypt_code has returned a code with
\* address FFFFFFFF, the code is the one the v7 engine decrypted the line
\* to, no rekey was made, the scheme is V7 and code_lines is 0.
C16_ReservedPassThrough ==
    (last.op = "auto" /\ last.ok /\ last.before.scheme = "V7"
        /\ last.out.addr = U32(\hffff, \hffff))
       => /\ last.out = cb7_decrypt_code_mut(last.before.cb7, last.in).code
          /\ last.rekeys = <<>>
          /\ cb.scheme = "V7"
          /\ cb.code_lines = 0

\* The line after a BEEFC0DF sentinel has decrypted to FFFFFFFF 00010000:
\* code_lines was 1 and the engine's beefcodf flag was set.
C16_Witness ==
    /\ last.op = "auto" /\ last.ok /\ last.before.scheme = "V7"
    /\ last.out = Code(U32(\hffff, \hffff), U32(1, 0))
    /\ last.before.code_lines = 1
    /\ last.before.cb7.beefcodf

----------------------------------------------------------------------------
(* Cb7::encrypt_code and Cb7::decrypt_code started in the same state       *)

\* Number of Cb7::beefcode calls that bring the engine to the state the
\* two calls start in.
MaxPrepare == 2

\* Sentinels passed to Cb7::beefcode to prepare the engine.
PrepareCodes ==
    { Code(BEEFCODE, Zero32), Code(BEEFCODE, U32(\hb16b, \h00b5)),
      Code(U32(\hbeef, \hc0df), Zero32), Code(U32(\hbeef, \hc0df), U32(\hb16b, \h00b5)) }

\* Codes encrypted and decrypted again: an ordinary code, the two sentinels,
\* and a code that steps 1 and 2 take to (0, 2) under the key Cb7::default
\* sets up.
PairCodes ==
    { Code(U32(\h2043, \hafcc), U32(\h2411, \hffff)),
      Code(BEEFCODE, Zero32),
      Code(U32(\hbeef, \hc0df), U32(\hb16b, \h00b5)),
      Code(U32(\h2915, \hdab9), U32(\h3642, \h8259)) }

InitCb7Pair ==
    /\ cb = CodebreakerNew
    /\ peer = CodebreakerNew
    /\ engine \in {Cb7New, Cb7Default}
    /\ last = [NoCall EXCEPT !.before = Cb7New]
    /\ peerLast = NoCall
    /\ calls = 0
    /\ pending = 0

\* cb7.beefcode(addr, val)
PrepareEngine ==
    /\ calls < MaxPrepare
    /\ last.op \in {"none", "beefcode"}
    /\ \E code \in PrepareCodes : \E r \in {beefcode(engine, code.addr, code.val)} :
          EngineStep("beefcode", code,
                     [ok |-> r.ok, cb7 |-> r.cb7, code |-> code,
                      rekeys |-> << <<code.addr, code.val>> >>])

\* Two copies of the engine: one encrypts code, the other decrypts what the
\* first returned. engine becomes the copy that encrypted; peerLast records
\* the copy that decrypted.
EncryptAndDecrypt ==
    /\ last.op \in {"none", "beefcode"}
    /\ \E code \in PairCodes : \E e \in {cb7_encrypt_code_mut(engine, code)} :
       \E d \in {IF e.ok THEN cb7_decrypt_code_mut(engine, e.code)
                 ELSE Cb7Panic(engine, e.code)} :
          /\ engine' = e.cb7
          /\ last' = [op |-> "encrypt", in |-> code, out |-> e.code, ok |-> e.ok,
                      rekeys |-> e.rekeys, before |-> engine]
          /\ peerLast' = [op |-> "decrypt", in |-> e.code, out |-> d.code, ok |-> d.ok,
                          rekeys |-> d.rekeys, before |-> engine, after |-> d.cb7]
    /\ calls' = calls + 1
    /\ UNCHANGED <<cb, peer, pending>>

NextCb7Pair == PrepareEngine \/ EncryptAndDecrypt

SpecCb7Pair == InitCb7Pair /\ [][NextCb7Pair]_vars

\* C18: when Cb7::encrypt_code has returned, Cb7::decrypt_code started in
\* the same engine state returns, for what it returned, the code it was
\* given.
C18_DecryptUndoesEncrypt ==
    (last.op = "encrypt" /\ last.ok)
       => (peerLast.ok /\ peerLast.out = last.in)

\* C19: when both calls have returned, the engine that encrypted the code
\* and the engine that decrypted the ciphertext are in the same state.
C19_EnginesInLockStep ==
    (last.op = "encrypt" /\ last.ok /\ peerLast.ok)
       => engine = peerLast.after

\* C21: Cb7::beefcode leaves beefcodf set exactly when the address was
\* BEEFC0DF, and the next call of Cb7::encrypt_code or Cb7::decrypt_code
\* that returns on an engine with beefcodf set leaves it clear.
C21_BeefcodfLatch ==
    /\ (last.op = "beefcode" /\ last.ok)
          => (engine.beefcodf <=> last.in.addr = U32(\hbeef, \hc0df))
    /\ (last.op = "encrypt" /\ last.ok /\ last.before.beefcodf)
          => ~engine.beefcodf
    /\ (last.op = "encrypt" /\ peerLast.ok /\ peerLast.before.beefcodf)
          => ~peerLast.after.beefcodf

\* A call that took the engine from before to after, on a code with the
\* plaintext plain, making the beefcode calls rekeys: a code that is no
\* sentinel, met with beefcodf clear, leaves the engine as it was; the key
\* changes only in a call that rekeys; and the line after BEEFC0DF, met
\* with beefcodf set, leaves the key and initialized as they were.
EngineFrame(before, after, plain, rekeys) ==
    /\ (~is_beefcode(plain.addr) /\ ~before.beefcodf) => after = before
    /\ after.key /= before.key => rekeys /= <<>>
    /\ before.beefcodf
          => (after.key = before.key /\ after.initialized = before.initialized)

\* C33: Cb7::encrypt_code and Cb7::decrypt_code leave the engine unchanged
\* on a code that is no sentinel when beefcodf is clear, change the key only
\* by rekeying, and on the second line of a BEEFC0DF pair change the seeds
\* and not the key.
C33_EngineFrame ==
    /\ (last.op = "encrypt" /\ last.ok)
          => EngineFrame(last.before, engine, last.in, last.rekeys)
    /\ (last.op = "encrypt" /\ peerLast.ok)
          => EngineFrame(peerLast.before, peerLast.after, peerLast.out, peerLast.rekeys)

----------------------------------------------------------------------------
(* encrypt_code and decrypt_code on codes that rekey the processor         *)

\* Number of calls made on the processor.
MaxTransform == 3

\* Codes passed to encrypt_code: the two sentinels and an ordinary code.
TransformEncInputs ==
    { Code(BEEFCODE, Zero32),
      Code(U32(\hbeef, \hc0df), U32(\hb16b, \h00b5)),
      Code(U32(\h2096, \hf5b8), U32(0, \h00be)) }

\* Codes passed to decrypt_code: the v1 ciphertext of BEEFC0DE 00000000 and
\* its v7 ciphertext under the preloaded key.
TransformDecInputs ==
    { Code(U32(\hb433, \h6fa9), U32(\h4dfe, \hfb79)),
      Code(U32(\h8787, \hc575), U32(\h1ac4, \hc1b4)) }

InitTransform ==
    /\ cb \in {CodebreakerNew, CodebreakerNewV7}
    /\ peer = CodebreakerNew
    /\ engine = Cb7New
    /\ last = NoCall
    /\ peerLast = NoCall
    /\ calls = 0
    /\ pending = 0

TransformEncrypt ==
    /\ calls < MaxTransform /\ last.ok
    /\ \E code \in TransformEncInputs : \E r \in {encrypt_code_mut(cb, code)} :
          Step("encrypt", code, r)

TransformDecrypt ==
    /\ calls < MaxTransform /\ last.ok
    /\ \E code \in TransformDecInputs : \E r \in {decrypt_code_mut(cb, code)} :
          Step("decrypt", code, r)

NextTransform == TransformEncrypt \/ TransformDecrypt

SpecTransform == InitTransform /\ [][NextTransform]_vars

\* The code the scheme and engine of processor c make of code when
\* encrypting, whatever the call does to the processor afterwards.
EncryptedBy(c, code) ==
    IF c.scheme = "V7" THEN cb7_encrypt_code_mut(c.cb7, code).code
    ELSE cb1_encrypt_code(code)

\* The same for decrypting.
DecryptedBy(c, code) ==
    IF c.scheme = "V7" THEN cb7_decrypt_code_mut(c.cb7, code).code
    ELSE cb1_decrypt_code(code)

\* C20: encrypt_code and decrypt_code return the code as the scheme and the
\* engine the processor had when the call started transform it; the call
\* rekeys exactly when the sentinel is there, in the input of encrypt_code
\* and in the output of decrypt_code, and changes the scheme only then.
C20_TransformThenSwitch ==
    /\ (last.op = "encrypt" /\ last.ok)
          => /\ last.out = EncryptedBy(last.before, last.in)
             /\ last.rekeys /= <<>> <=> is_beefcode(last.in.addr)
             /\ cb.scheme /= last.before.scheme => is_beefcode(last.in.addr)
    /\ (last.op = "decrypt" /\ last.ok)
          => /\ last.out = DecryptedBy(last.before, last.in)
             /\ last.rekeys /= <<>> <=> is_beefcode(last.out.addr)
             /\ cb.scheme /= last.before.scheme => is_beefcode(last.out.addr)

\* new() has encrypted BEEFC0DE 00000000 as its first code, to the v1
\* ciphertext B4336FA9 4DFEFB79, and is in V7 afterwards.
C20_Witness ==
    /\ last.op = "encrypt" /\ last.ok
    /\ last.before = CodebreakerNew
    /\ last.in = Code(BEEFCODE, Zero32)
    /\ last.out = Code(U32(\hb433, \h6fa9), U32(\h4dfe, \hfb79))
    /\ cb.scheme = "V7" /\ cb.cb7 = Cb7Default

----------------------------------------------------------------------------
(* Cb7::beefcode, with the key and seeds it sets up and each round of its  *)
(* RC4 pass                                                                *)

\* Number of Cb7::beefcode calls made on the engine.
MaxRekeys == 2

\* Sentinels passed to Cb7::beefcode.
RekeyAddrs == { BEEFCODE, U32(\hbeef, \hc0df) }

\* Values passed to Cb7::beefcode.
RekeyVals == { Zero32, U32(0, 1), U32(\hb16b, \h00b5), U32(\hdead, \hface) }

\* The states "Use key to encrypt seeds with RC4" goes through from the key
\* and seeds setup: element n + 1 is the state after n rounds.
RekeyPass(setup) ==
    For(LAMBDA acc, i : Append(acc, BeefcodeRow(acc[i + 1], i)), 0, 5,
        << [seeds |-> setup.seeds, k |-> BytesOf(setup.key)] >>)

InitRekey ==
    /\ cb = CodebreakerNew
    /\ peer = CodebreakerNew
    /\ engine \in {Cb7New, Cb7Default}
    /\ last = [op |-> "none", in |-> Code(Zero32, Zero32), ok |-> TRUE, before |-> Cb7New,
               setup |-> [seeds |-> ZERO_SEEDS, key |-> Cb7New.key], pass |-> <<>>]
    /\ peerLast = NoCall
    /\ calls = 0
    /\ pending = 0

\* cb7.beefcode(addr, val): last.setup is the key and seeds the call sets up
\* and last.pass the rounds of its RC4 pass.
Rekey ==
    /\ calls < MaxRekeys
    /\ \E addr \in RekeyAddrs : \E val \in RekeyVals :
       \E r \in {beefcode(engine, addr, val)} :
       \E setup \in {BeefcodeSetup(engine, val)} :
          /\ engine' = r.cb7
          /\ last' = [op |-> "beefcode", in |-> Code(addr, val), ok |-> r.ok,
                      before |-> engine, setup |-> setup, pass |-> RekeyPass(setup)]
    /\ calls' = calls + 1
    /\ UNCHANGED <<cb, peer, peerLast, pending>>

NextRekey == Rekey

SpecRekey == InitRekey /\ [][NextRekey]_vars

\* The engine after the last call holds the seeds and key that the RC4 pass,
\* started on the key and seeds set up, ends with.
PassFromSetup ==
    /\ last.pass[1].seeds = last.setup.seeds
    /\ last.pass[1].k = BytesOf(last.setup.key)
    /\ engine.seeds = last.pass[6].seeds
    /\ engine.key = WordsOf(last.pass[6].k)
    /\ engine.initialized

\* Key word i of 0..3 as its four little-endian bytes: byte n is taken from
\* row (i + n) % 4 at the index byte n of val gives.
KeyWordBytes(rows, i, val) ==
    << rows[(i % 4) + 1][val[1] + 1], rows[((i + 1) % 4) + 1][val[2] + 1],
       rows[((i + 2) % 4) + 1][val[3] + 1], rows[((i + 3) % 4) + 1][val[4] + 1] >>

\* C22: Cb7::beefcode with val /= 0 sets, before the RC4 pass, key words 0..3
\* to the bytes of seed rows 0..3 that the bytes of val index; the rows are
\* SEEDS, loaded into the seeds, with key[4] = RC4_KEY[4] on the first call,
\* and the seeds of the engine, left as they are, with key[4] as it was on
\* later calls.
C22_RekeyKeySchedule ==
    (last.op = "beefcode" /\ last.in.val /= Zero32)
       => \A rows \in {IF last.before.initialized THEN last.before.seeds ELSE SEEDS} :
             /\ last.setup.seeds = rows
             /\ \A i \in 0..3 : last.setup.key[i + 1] = KeyWordBytes(rows, i, last.in.val)
             /\ last.setup.key[5] = IF last.before.initialized THEN last.before.key[5]
                                    ELSE RC4_KEY[5]
             /\ PassFromSetup

\* Cb7::beefcode has been called with a val other than 0 on an engine that
\* an earlier call had rekeyed, and has changed key words 0..3.
C22_Witness ==
    /\ last.op = "beefcode" /\ last.in.val = U32(\hb16b, \h00b5)
    /\ last.before.initialized /\ last.before.seeds /= SEEDS
    /\ \A i \in 1..4 : last.setup.key[i] /= last.before.key[i]

\* C23: Cb7::beefcode with val = 0 sets, before the RC4 pass, the seeds to
\* zero; the key is RC4_KEY on the first call, and on later calls key words
\* 0..3 are 0 and key[4] is as the call before left it. The engine after
\* BEEFC0DE 00000000 twice differs from the engine after it once.
C23_RekeyZeroValue ==
    (last.op = "beefcode" /\ last.in.val = Zero32)
       => /\ last.setup.seeds = ZERO_SEEDS
          /\ ~last.before.initialized => last.setup.key = RC4_KEY
          /\ last.before.initialized
                => /\ \A i \in 1..4 : last.setup.key[i] = Zero32
                   /\ last.setup.key[5] = last.before.key[5]
          /\ PassFromSetup
          /\ (last.before = Cb7Default /\ last.in.addr = BEEFCODE)
                => engine /= Cb7Default

\* BEEFC0DE 00000000 has been passed to an engine that Cb7::default built.
C23_Witness ==
    /\ last.op = "beefcode" /\ last.in = Code(BEEFCODE, Zero32)
    /\ last.before = Cb7Default
    /\ last.setup.key[5] /= RC4_KEY[5]
    /\ engine.key /= Cb7Default.key

\* A fresh RC4 keyed by key after n bytes of keystream, and those bytes.
Keystream(key, n) == Rc4Crypt(Rc4New(key), [c \in 1..n |-> 0])

\* Round i of the RC4 pass of the last call took the first 256 bytes of the
\* keystream of an RC4 keyed by the key of that round for row i and the
\* next 20 for the key, left the other rows alone, and used used bytes of
\* keystream in all.
RoundUses(i, used) ==
    \A s \in {last.pass[i + 1]} : \A t \in {last.pass[i + 2]} :
    \A ks \in {Keystream(s.k, used)} :
       /\ Len(s.k) = 20
       /\ t.seeds = [s.seeds EXCEPT
                       ![i + 1] = [c \in 1..256 |-> Xor8(s.seeds[i + 1][c], ks.buf[c])]]
       /\ t.k = [c \in 1..20 |-> Xor8(s.k[c], ks.buf[256 + c])]
       /\ t.rc4 = ks.rc4

\* C24 as stated: every round of the RC4 pass encrypts its row and then the
\* key with one RC4 keyed by the key the round before left, and consumes 512
\* bytes of keystream.
C24_RowUses512 ==
    last.op = "beefcode" => (PassFromSetup /\ \A i \in 0..4 : RoundUses(i, 512))

\* C24, amended: every round consumes 276 bytes of keystream, 256 for the
\* row and 20 for the key.
C24_RowUses276 ==
    last.op = "beefcode" => (PassFromSetup /\ \A i \in 0..4 : RoundUses(i, 276))

\* Cb7::beefcode has returned and every round of its pass changed the key.
C24_Witness ==
    /\ last.op = "beefcode" /\ last.ok
    /\ \A i \in 1..5 : last.pass[i + 1].k /= last.pass[i].k
    /\ last.pass[6].seeds[5] /= last.setup.seeds[5]

----------------------------------------------------------------------------
(* rsa_crypt with the encryption key and then the decryption key, and the  *)
(* other way round                                                         *)

\* The 64-bit numbers passed to rsa_crypt, as (addr, val) with addr the
\* high word: the eleven numbers from RSA_MODULUS up, the numbers next
\* below it, numbers of one word, the factors 5 and 2551 of RSA_MODULUS
\* and multiples of them, and codes.
RsaInputs ==
    { Code(U32(\hffff, \hffff), U32(\hffff, \hfff5 + n)) : n \in 0..10 }
    \cup { Code(U32(\hffff, \hffff), U32(\hffff, \hfff4 - n)) : n \in 0..2 }
    \cup { Code(Zero32, U32(0, n)) : n \in {0, 1, 2, 3, 5, 2551, 12755} }
    \cup { Code(Zero32, U32(\hffff, \hffff)), Code(U32(0, 1), Zero32),
           Code(U32(0, 1), U32(0, 1)), Code(U32(0, 5), Zero32),
           Code(U32(0, 2551), U32(0, 2551)), Code(U32(0, 12755), U32(0, 5)),
           Code(U32(\h8000, 0), Zero32), Code(U32(\h7fff, \hffff), U32(\hffff, \hffff)),
           Code(U32(\hffff, \hfffe), U32(\hffff, \hffff)),
           Code(U32(\h2043, \hafcc), U32(\h2411, \hffff)),
           Code(U32(\h3979, \h51b0), U32(\h4156, \h9fe0)),
           Code(U32(\h2915, \hdab9), U32(\h3642, \h8259)),
           Code(U32(\hc10a, \h96bb), U32(\h8c86, \h8fdb)),
           Code(BEEFCODE, Zero32), Code(U32(\hbeef, \hc0df), U32(\hb16b, \h00b5)),
           Code(U32(\h1234, \h5678), U32(\h9abc, \hdef0)),
           Code(U32(\hdead, \hface), U32(\hcafe, \hbabe)) }

\* The outcome of a call of rsa_crypt on code.
RsaApplied(op, code, r) ==
    [op |-> op, in |-> code, out |-> r.code, ok |-> r.ok, rekeys |-> <<>>,
     before |-> CodebreakerNew]

InitRsa ==
    /\ cb = CodebreakerNew
    /\ peer = CodebreakerNew
    /\ engine = Cb7New
    /\ last \in {Input(code) : code \in RsaInputs}
    /\ peerLast = NoCall
    /\ calls = 0
    /\ pending = 0

\* The step that applies rsa_crypt with key first and, when that call
\* returned, with key second to its result.
RsaTwice(first, second, firstOp, secondOp) ==
    /\ last.op = "input"
    /\ \E r \in {rsa_crypt(last.in, first, RSA_MODULUS)} :
          /\ last' = RsaApplied(firstOp, last.in, r)
          /\ peerLast' = IF r.ok
                         THEN RsaApplied(secondOp, r.code,
                                         rsa_crypt(r.code, second, RSA_MODULUS))
                         ELSE NoCall
    /\ calls' = calls + 1
    /\ UNCHANGED <<cb, peer, engine, pending>>

\* rsa_crypt(RSA_ENC_KEY) as in Cb7::encrypt_code_mut, then
\* rsa_crypt(RSA_DEC_KEY) as in Cb7::decrypt_code_mut
RsaEncryptDecrypt == RsaTwice(RSA_ENC_KEY, RSA_DEC_KEY, "rsa_encrypt", "rsa_decrypt")

\* rsa_crypt(RSA_DEC_KEY), then rsa_crypt(RSA_ENC_KEY)
RsaDecryptEncrypt == RsaTwice(RSA_DEC_KEY, RSA_ENC_KEY, "rsa_decrypt", "rsa_encrypt")

NextRsa == RsaEncryptDecrypt \/ RsaDecryptEncrypt

SpecRsa == InitRsa /\ [][NextRsa]_vars

\* The 64-bit number a code packs, as 8 little-endian bytes.
Packed(code) == code.val \o code.addr

\* m^11 mod RSA_MODULUS by ten multiplications.
Pow11(m) == For(LAMBDA p, i : ModMul(p, m), 0, 10, m)

\* call is a call of rsa_crypt that returned what the RSA stage is to
\* return: the code itself when it packs a number from RSA_MODULUS up, and
\* otherwise M^k mod RSA_MODULUS - for k = 11 the product of eleven M, for
\* the encryption key the number whose 11th power is M.
RsaStage(call) ==
    /\ call.ok
    /\ IF ~Less64(Packed(call.in), RSA_MODULUS) THEN call.out = call.in
       ELSE /\ Less64(Packed(call.out), RSA_MODULUS)
            /\ IF call.op = "rsa_decrypt"
               THEN Packed(call.out) = Pow11(Packed(call.in))
               ELSE Packed(call.in) = Pow11(Packed(call.out))

\* C25: rsa_crypt returns for every 64-bit number - the number itself from
\* RSA_MODULUS up, M^k mod RSA_MODULUS below it - and rsa_crypt with one
\* key undoes rsa_crypt with the other.
C25_RsaBijection ==
    last.op \in {"rsa_encrypt", "rsa_decrypt"}
       => /\ RsaStage(last)
          /\ RsaStage(peerLast)
          /\ peerLast.out = last.in

----------------------------------------------------------------------------
(* mul_encrypt, mul_decrypt and mod_inverse                                *)

\* The pairs (x, mod_inverse(x)) of tests::test_mod_inverse.
ModInverseTests ==
    { <<U32(\h0d31, \h3243), U32(\h6c7b, \h2a6b)>>, <<U32(\h0efd, \h8231), U32(\hd4c0, \h96d1)>>,
      <<U32(\h2912, \hdedd), U32(\he09d, \he975)>>, <<U32(\h4fd9, \h31ff), U32(\h9a62, \hcdff)>>,
      <<U32(\h5a53, \habb5), U32(\h58f4, \h2a9d)>>, <<U32(\h9ab2, \haf6d), U32(\h1043, \hb265)>>,
      <<U32(\ha686, \hd3b7), U32(\h57ed, \h7a07)>>, <<U32(\hec35, \ha92f), U32(\hd274, \h3dcf)>>,
      <<Zero32, Zero32>>, <<U32(0, 1), U32(0, 1)>>,
      <<U32(\hffff, \hffff), U32(\hffff, \hffff)>> }

\* The multipliers b of mul_encrypt(a, b) and arguments x of mod_inverse(x):
\* those of the tests, even ones, and ones next to the ends of the range.
MulKeys ==
    { t[1] : t \in ModInverseTests }
    \cup { U32(\ha686, \hd3b6), U32(0, 2), U32(0, 3), U32(\h8000, 0), U32(\h8000, 1),
           U32(\h7fff, \hffff), U32(\hffff, \hfffe), U32(1, 1) }

\* The numbers a of mul_encrypt(a, b).
MulValues ==
    { Zero32, U32(0, 1), U32(0, \h00be), U32(\h2405, \h0002), U32(\h03d2, \h03e7),
      U32(\h8000, 0), U32(\hffff, \hffff) }

\* Inputs are held as codes: addr is a and val is b.
InitMul ==
    /\ cb = CodebreakerNew
    /\ peer = CodebreakerNew
    /\ engine = Cb7New
    /\ last \in {Input(Code(a, b)) : a \in MulValues, b \in MulKeys}
    /\ peerLast = NoCall
    /\ calls = 0
    /\ pending = 0

\* mul_decrypt(mul_encrypt(a, b), b)
MulEncryptDecrypt ==
    /\ last.op = "input"
    /\ \E mid \in {mul_encrypt(last.in.addr, last.in.val)} :
          /\ last' = Applied("mul_encrypt", last.in, Code(mid, last.in.val))
          /\ peerLast' = Applied("mul_decrypt", Code(mid, last.in.val),
                                 Code(mul_decrypt(mid, last.in.val), last.in.val))
    /\ calls' = calls + 1
    /\ UNCHANGED <<cb, peer, engine, pending>>

\* mod_inverse(b)
ModInverse ==
    /\ last.op = "input"
    /\ last' = Applied("mod_inverse", last.in, Code(mod_inverse(last.in.val), last.in.val))
    /\ peerLast' = NoCall
    /\ calls' = calls + 1
    /\ UNCHANGED <<cb, peer, engine, pending>>

NextMul == MulEncryptDecrypt \/ ModInverse

SpecMul == InitMul /\ [][NextMul]_vars

\* y after n steps of y <- y * (2 - y * x), started at y = x.
Newton(x, n) == For(LAMBDA y, i : Mul32(y, Sub32(U32(0, 2), Mul32(y, x))), 0, n, x)

\* C26: for odd x, mod_inverse(x) is x after four Newton steps and its
\* product with x is 1 modulo 2^32; mod_inverse gives the values of its
\* tests, among them 1 for 1, FFFFFFFF for FFFFFFFF and 0 for 0; and
\* mul_decrypt(mul_encrypt(a, b), b) = a.
C26_ModInverse ==
    /\ last.op = "mod_inverse"
          => /\ last.out.addr = Newton(last.in.val, 4)
             /\ last.in.val[1] % 2 = 1 => Mul32(last.in.val, last.out.addr) = U32(0, 1)
             /\ \A t \in ModInverseTests : last.in.val = t[1] => last.out.addr = t[2]
    /\ last.op = "mul_encrypt"
          => /\ last.out.addr = Mul32(last.in.addr, Or32(last.in.val, U32(0, 1)))
             /\ peerLast.out.addr = last.in.addr

\* mod_inverse has returned the inverse of 0D313243, which three Newton
\* steps do not reach.
C26_Witness ==
    /\ last.op = "mod_inverse" /\ last.in.val = U32(\h0d31, \h3243)
    /\ last.out.addr = U32(\h6c7b, \h2a6b)
    /\ Newton(last.in.val, 3) /= last.out.addr

----------------------------------------------------------------------------
(* num_code_lines                                                          *)

\* Addresses passed to num_code_lines: every command nibble with the bits
\* below it clear, set, and set or clear around 0x00400000.
LineAddrs ==
    { U32(n * 4096 + hl[1], hl[2]) :
        n \in 0..15,
        hl \in { <<0, 0>>, <<\h0040, 0>>, <<\h0fbf, \hffff>>, <<\h0fff, \hffff>>,
                 <<\h0020, 0>>, <<\h0080, 0>>, <<\h0e40, \h0001>> } }

InitLines ==
    /\ cb = CodebreakerNew
    /\ peer = CodebreakerNew
    /\ engine = Cb7New
    /\ last \in {Input(Code(addr, Zero32)) : addr \in LineAddrs}
    /\ peerLast = NoCall
    /\ calls = 0
    /\ pending = 0

\* num_code_lines(addr): pending is the number it returned.
NumCodeLines ==
    /\ last.op = "input"
    /\ last' = Applied("num_code_lines", last.in, last.in)
    /\ pending' = num_code_lines(last.in.addr)
    /\ calls' = calls + 1
    /\ UNCHANGED <<cb, peer, engine, peerLast>>

NextLines == NumCodeLines

SpecLines == InitLines /\ [][NextLines]_vars

\* Bit 0x00400000 of addr is set.
Bit22(addr) == (addr[3] \div 64) % 2 = 1

\* C27: num_code_lines(addr) is 2 exactly when the command nibble of addr
\* is 4, 5 or 6, or is 3 with bit 0x00400000 of addr set, and 1 for every
\* other address.
C27_NumCodeLines ==
    last.op = "num_code_lines"
       => /\ pending \in {1, 2}
          /\ pending = 2 <=> \/ (last.in.addr[4] \div 16) \in {4, 5, 6}
                             \/ (last.in.addr[4] \div 16) = 3 /\ Bit22(last.in.addr)

\* num_code_lines has returned 2 for 30400000.
C27_Witness ==
    /\ last.op = "num_code_lines" /\ last.in.addr = U32(\h3040, 0)
    /\ pending = 2

----------------------------------------------------------------------------
(* auto_decrypt_code on unencrypted sentinels, on a processor not in V7    *)

\* Number of lines passed to the processor.
MaxNoop == 4

\* Lines passed to auto_decrypt_code: the two sentinels unencrypted with
\* two values each, raw lines, first lines of raw two-line commands, v1
\* ciphertexts of one-line commands, and first lines of encrypted two-line
\* commands.
NoopLines ==
    { Code(BEEFCODE, Zero32),
      Code(BEEFCODE, U32(\hdead, \hface)),
      Code(U32(\hbeef, \hc0df), Zero32),
      Code(U32(\hbeef, \hc0df), U32(\hb16b, \h00b5)),
      Code(U32(0, \h0010), U32(0, \h0011)),
      Code(U32(\h1000, 0), U32(0, \hffff)),
      Code(U32(\h4000, 0), U32(0, 1)),
      Code(U32(\h3040, 0), U32(0, 2)),
      Code(U32(\h2a97, \h3dbd), Zero32),
      Code(U32(\h0a00, \h0010), U32(0, \h0022)),
      Code(U32(\h4e00, \h0010), U32(\h1234, \h5678)),
      Code(U32(\h5c12, \h3456), U32(\h89ab, \hcdef)) }

InitAutoNoop ==
    /\ cb = CodebreakerNew
    /\ peer = CodebreakerNew
    /\ engine = Cb7New
    /\ last = NoCall
    /\ peerLast = NoCall
    /\ calls = 0
    /\ pending = 0

\* cb.auto_decrypt_code(addr, val)
AutoNoopLine ==
    /\ calls < MaxNoop /\ last.ok
    /\ \E code \in NoopLines : \E r \in {auto_decrypt_code_mut(cb, code)} :
          Step("auto", code, r)

NextAutoNoop == AutoNoopLine

SpecAutoNoop == InitAutoNoop /\ [][NextAutoNoop]_vars

\* auto_decrypt_code has been given an unencrypted sentinel as the first
\* line of a command, on a processor that was not in V7.
RawSentinelFirst ==
    /\ last.op = "auto"
    /\ last.before.scheme /= "V7" /\ last.before.code_lines = 0
    /\ is_beefcode(last.in.addr)

\* C28: auto_decrypt_code on a processor not in V7 and at the start of a
\* command returns an unencrypted sentinel as it is, counts its one line
\* off, and leaves the scheme and the v7 engine alone, with no rekey.
C28_RawSentinelNoOp ==
    RawSentinelFirst
       => /\ last.ok /\ last.out = last.in
          /\ cb.code_lines = num_code_lines(last.in.addr) - 1
          /\ cb.code_lines = 0
          /\ cb.scheme = last.before.scheme
          /\ cb.cb7 = last.before.cb7
          /\ last.rekeys = <<>>

\* BEEFC0DF B16B00B5 has been passed unencrypted to a processor in V1
\* between two commands.
C28_Witness ==
    /\ RawSentinelFirst
    /\ last.before.scheme = "V1"
    /\ last.in = Code(U32(\hbeef, \hc0df), U32(\hb16b, \h00b5))
    /\ cb.scheme = "V1"

============================================================================
